---- MODULE Spec2Model ----
(***************************************************************************)
(* Model of the message deletion methods of hata's Client                  *)
(* (src/hata/discord/client.py): message_delete, message_delete_multiple,  *)
(* message_delete_multiple2, message_delete_sequence and                   *)
(* multi_client_message_delete_sequence.                                   *)
(*                                                                         *)
(* Time and ids.  The clock `now` counts ticks of 2.5 seconds since        *)
(* DISCORD_EPOCH.  A message id is the snowflake of the source shifted     *)
(* right by 22 bits and counted in the same ticks, so that the source's    *)
(*     int((time_now()-1209600.)*1000.-DISCORD_EPOCH)<<22                  *)
(* is `now - BulkAge`, and the literal 20971520000 (5000 ms << 22) is two  *)
(* ticks.  Ids of distinct messages are distinct.                          *)
(*                                                                         *)
(* Tasks.  Every Task(...) the source creates is appended to `requests`    *)
(* (the requests handed to the http layer, in creation order); a task is   *)
(* named by its position in `requests`, and the source's task variables    *)
(* hold such a position, or NoTask for None.                               *)
(***************************************************************************)
EXTENDS Integers, Sequences, FiniteSets, TLC

VARIABLES
    fn,                     \* the method being run
    pc,                     \* "start", "loop", "wait", "done", "raised"
    now,                    \* time_now(), in ticks
    channel,                \* [messages (the cache), history (the server's messages), message_history_reached_end]
    permissions,            \* channel.cached_permissions_for(self)
    sharders,               \* multi client method: per client its permissions and task slots
    after,                  \* the `after` parameter, converted
    before,                 \* the `before` parameter, converted
    limit,                  \* the `limit` parameter, counted down
    input,                  \* the `messages` parameter of message_delete_multiple and
                            \* message_delete_multiple2, <<message>> for message_delete
    message_group_new,
    message_group_old,
    message_group_old_own,
    should_request,
    last_message_id,
    tasks,
    get_mass_task,
    get_mass_task_next,
    delete_mass_task,
    delete_new_task,
    delete_old_task,
    requests,               \* every request made, in order
    scanned,                \* the last loop pass re-scanned the tail of message_group_new
    enqueued,               \* the ids put into a message group when they were classified
    fresh,                  \* those of them that were put into message_group_new
    failed,                 \* the task whose result() raised, NoTask if none
    cancelled,              \* the tasks whose cancel() was called
    error,                  \* the exception that left the method, "" if none
    calls,                  \* message_delete: the calls made with the message before this one
    delete_system,          \* message_delete_multiple2: the messages grouped by channel
    outcomes,               \* message_delete_multiple2: per task "pending", "None" or its exception
    returned                \* message_delete_multiple2: the value returned

vars == <<fn, pc, now, channel, permissions, sharders, after, before, limit, input, message_group_new,
          message_group_old, message_group_old_own, should_request, last_message_id,
          tasks, get_mass_task, get_mass_task_next, delete_mass_task, delete_new_task,
          delete_old_task, requests, scanned, enqueued, fresh, failed, cancelled, error,
          calls, delete_system, outcomes, returned>>

----------------------------------------------------------------------------
(* Program constants, in ticks of 2.5 seconds. *)

BulkAge == 483840           \* 1209600. seconds: 2 weeks
SafeAge == 483836           \* 1209590. seconds: 2 weeks - 10 s
RescanBack == 2             \* 20971520000 == 5000 ms << 22

(* Scaled stand-ins for the source's literal 100. *)
BulkCap == 2                \* `collected == 100`, `message_count == 100`
PageSize == 2               \* 'limit': 100 and `received_count < 100`

(* Bounds of the explored inputs. *)
MaxMsgs == 3                \* messages in the channel
MaxElapsed == 1             \* ticks the clock advances during a run
MaxClients == 2             \* clients at the channel (multi client method)
MaxDone == 2                \* tasks found done by one WaitTillFirst

NoTask == 0                 \* None in a task variable

(* The values of `returned`: while the method runs, after `return` of None,
   and after `return exceptions`. *)
NotReturned == [value |-> "-", list |-> <<>>]
ReturnedNone == [value |-> "None", list |-> <<>>]
ReturnedList(list) == [value |-> "list", list |-> list]

Start == BulkAge + 1        \* the clock when the method is called
Unlimited == MaxMsgs + 1    \* limit = None: 9223372036854775807
MaxId == MaxMsgs + 4        \* message ids are 1..MaxId
BeforeMax == 2 * MaxId      \* before = None: 9223372036854775807

(* What the result() of a request's task raises when the request fails: for
   a failure of the connection and for an error answer of the server. *)
Failures == {"ConnectionError", "DiscordException"}

BulkLimit(t) == t - BulkAge
SafeLimit(t) == t - SafeAge

----------------------------------------------------------------------------
(* Helpers on sequences. *)

Max(S) == CHOOSE x \in S : \A y \in S : y <= x

RECURSIVE DescSeq(_)
DescSeq(S) == IF S = {} THEN <<>> ELSE <<Max(S)>> \o DescSeq(S \ {Max(S)})

Range(s) == {s[i] : i \in 1..Len(s)}

Ids(s) == [i \in 1..Len(s) |-> s[i].id]

AppendLeft(s, x) == <<x>> \o s

Remove(s, x) == SelectSeq(s, LAMBDA y : y # x)

(* The channels with at most MaxMsgs messages: the server's messages, newest
   first, each with its author (0: no client of ours, c >= 1: client c) and
   whether the client has it marked as deleted. *)
Histories(authors, flags) ==
    {[i \in 1..Len(DescSeq(S)) |-> [id |-> DescSeq(S)[i], author |-> a[DescSeq(S)[i]],
                                     deleted |-> d[DescSeq(S)[i]]]] :
        <<S, a, d>> \in {<<S, a, d>> \in (SUBSET (1..MaxId)) \X [1..MaxId -> authors] \X [1..MaxId -> flags] :
            /\ Cardinality(S) <= MaxMsgs
            /\ \A i \in (1..MaxId) \ S : a[i] = 0 /\ ~d[i]}}

----------------------------------------------------------------------------
(* Tasks *)

(* Task(coro, KOKORO) followed by tasks.append(task) and the assignment of the
   task to `slot`. *)
Spawn(F, slot, k, ids, by, t) ==
    LET n == Len(F.requests) + 1
    IN  [F EXCEPT !.requests = Append(@, [k |-> k, ids |-> ids, by |-> by, at |-> t,
                                          before |-> IF k = "message_logs" THEN F.last_message_id ELSE 0]),
                  !.tasks = Append(@, n),
                  ![slot] = n]

(* What the server answers to message_logs(channel_id, {'limit': 100, 'before': before_}) *)
HistoryPage(before_) ==
    LET older == SelectSeq(channel.history, LAMBDA m : m.id < before_)
    IN  SubSeq(older, 1, IF Len(older) < PageSize THEN Len(older) ELSE PageSize)

----------------------------------------------------------------------------
(* message_delete_sequence *)

Frame ==
    [message_group_new |-> message_group_new, message_group_old |-> message_group_old,
     message_group_old_own |-> message_group_old_own, should_request |-> should_request,
     last_message_id |-> last_message_id, limit |-> limit, tasks |-> tasks,
     get_mass_task |-> get_mass_task, delete_mass_task |-> delete_mass_task,
     delete_new_task |-> delete_new_task, delete_old_task |-> delete_old_task,
     requests |-> requests, scanned |-> FALSE, enqueued |-> enqueued, fresh |-> fresh,
     sharders |-> sharders, get_mass_task_next |-> get_mass_task_next,
     failed |-> failed, cancelled |-> cancelled, error |-> error]

Store(F) ==
    /\ message_group_new' = F.message_group_new
    /\ message_group_old' = F.message_group_old
    /\ message_group_old_own' = F.message_group_old_own
    /\ should_request' = F.should_request
    /\ last_message_id' = F.last_message_id
    /\ limit' = F.limit
    /\ tasks' = F.tasks
    /\ get_mass_task' = F.get_mass_task
    /\ delete_mass_task' = F.delete_mass_task
    /\ delete_new_task' = F.delete_new_task
    /\ delete_old_task' = F.delete_old_task
    /\ requests' = F.requests
    /\ scanned' = F.scanned
    /\ enqueued' = F.enqueued
    /\ fresh' = F.fresh
    /\ sharders' = F.sharders
    /\ get_mass_task_next' = F.get_mass_task_next
    /\ failed' = F.failed
    /\ cancelled' = F.cancelled
    /\ error' = F.error

EnqueueNew(F, id, own, time_limit) ==
    [F EXCEPT !.enqueued = @ \cup {id}, !.fresh = @ \cup {id},
              !.message_group_new = Append(@, [own |-> own, id |-> id])]

(* The classification of one message, from the cache or from a history page. *)
Enqueue(F, id, own, time_limit) ==
    LET G == [F EXCEPT !.enqueued = @ \cup {id}]
    IN  IF id > time_limit
        THEN [G EXCEPT !.message_group_new = Append(@, [own |-> own, id |-> id]),
                       !.fresh = @ \cup {id}]
        ELSE IF own
             THEN [G EXCEPT !.message_group_old_own = Append(@, id)]
             ELSE [G EXCEPT !.message_group_old = Append(@, id)]

(* message_relativeindex(messages_, message_id): the index of the first cached
   message whose id is not above message_id (0 based). *)
message_relativeindex(messages_, message_id) ==
    Cardinality({i \in 1..Len(messages_) : messages_[i].id > message_id})

SeqLimitNeverReached(limit_) == FALSE

(* `limit -= 1; if limit: continue` falls through: the limit is used up *)
SeqLimitReached(limit_) == limit_ = 0

RECURSIVE SeqLoadCache(_, _, _, _)
SeqLoadCache(F, before_index, after_index, time_limit) ==
    IF before_index = after_index THEN F
    ELSE LET message_ == channel.messages[before_index + 1]
             F1 == Enqueue([F EXCEPT !.last_message_id = message_.id], message_.id,
                           message_.author = 1, time_limit)
             F2 == [F1 EXCEPT !.limit = @ - 1]
         IN  IF ~SeqLimitReached(F2.limit) THEN SeqLoadCache(F2, before_index + 1, after_index, time_limit)
             ELSE [F2 EXCEPT !.should_request = FALSE]

SeqCanRequestAlways == TRUE

(* `if channel.message_history_reached_end or (not permissions.can_read_message_history):` *)
SeqCanRequest ==
    ~(channel.message_history_reached_end \/ ~permissions.can_read_message_history)

SeqReversedNever(after_, before_) == FALSE

(* `if before < after: return` *)
SeqReversed(after_, before_) == before_ < after_

SeqBegin ==
    /\ fn = "message_delete_sequence"
    /\ pc = "start"
    /\ UNCHANGED <<fn, now, channel, permissions, after, before, input,
                 calls, delete_system, outcomes, returned>>
    /\ IF ~permissions.can_manage_messages \/ SeqReversed(after, before) \/ limit <= 0
       THEN /\ pc' = "done"
            /\ Store(Frame)
       ELSE LET F0 == [Frame EXCEPT !.should_request = SeqCanRequest,
                                    !.last_message_id = before]
                before_index == message_relativeindex(channel.messages, before)
                after_index == message_relativeindex(channel.messages, after)
            IN  /\ pc' = "loop"
                /\ Store(SeqLoadCache(F0, before_index, after_index, BulkLimit(now)))

SeqRequest(F, t) ==
    IF F.should_request /\ F.get_mass_task = NoTask
    THEN Spawn(F, "get_mass_task", "message_logs", <<>>, 1, t)
    ELSE F

RECURSIVE CollectAll(_, _, _)
CollectAll(group, time_limit, collected) ==
    IF collected = Len(group) THEN collected
    ELSE IF group[collected + 1].id < time_limit THEN collected
    ELSE CollectAll(group, time_limit, collected + 1)

RECURSIVE CollectStale(_, _, _)
CollectStale(group, time_limit, collected) ==
    IF collected = Len(group) THEN collected
    ELSE IF collected = BulkCap THEN collected
    ELSE CollectStale(group, time_limit, collected + 1)

(* The `while True:` that counts the messages of the next request: `collected`
   messages at the head of message_group_new. *)
RECURSIVE Collect(_, _, _)
Collect(group, time_limit, collected) ==
    IF collected = Len(group) THEN collected
    ELSE IF collected = BulkCap THEN collected
    ELSE IF group[collected + 1].id < time_limit THEN collected
    ELSE Collect(group, time_limit, collected + 1)

RescanLimitLow(time_limit) == time_limit - 3 * RescanBack

RescanLimitHigh(time_limit) == time_limit + BeforeMax

(* `time_limit = time_limit-20971520000` *)
RescanLimit(time_limit) == time_limit - RescanBack

SeqMoveBack(F, time_limit) ==
    IF F.message_group_old = <<>> THEN F
    ELSE [F EXCEPT !.message_group_old = Tail(@),
                   !.message_group_new = Append(@, [own |-> FALSE, id |-> Head(F.message_group_old)])]

RECURSIVE SeqDropAged(_, _)
SeqDropAged(F, time_limit) ==
    IF F.message_group_new = <<>> THEN F
    ELSE IF F.message_group_new[Len(F.message_group_new)].id > time_limit THEN F
    ELSE SeqDropAged([F EXCEPT !.message_group_new = SubSeq(@, 1, Len(@) - 1)], time_limit)

RECURSIVE SeqMoveAgedFromHead(_, _)
SeqMoveAgedFromHead(F, time_limit) ==
    IF F.message_group_new = <<>> THEN F
    ELSE LET first == Head(F.message_group_new)
             rest  == [F EXCEPT !.message_group_new = Tail(@)]
         IN  IF first.id > time_limit
             THEN [SeqMoveAgedFromHead(rest, time_limit) EXCEPT !.message_group_new = <<first>> \o @]
             ELSE IF first.own
                  THEN SeqMoveAgedFromHead([rest EXCEPT !.message_group_old_own = <<first.id>> \o @], time_limit)
                  ELSE SeqMoveAgedFromHead([rest EXCEPT !.message_group_old = <<first.id>> \o @], time_limit)

RECURSIVE SeqMoveAgedToTail(_, _)
SeqMoveAgedToTail(F, time_limit) ==
    IF F.message_group_new = <<>> THEN F
    ELSE LET last == F.message_group_new[Len(F.message_group_new)]
             rest == [F EXCEPT !.message_group_new = SubSeq(@, 1, Len(@) - 1)]
         IN  IF last.id > time_limit THEN F
             ELSE IF last.own
                  THEN SeqMoveAgedToTail([rest EXCEPT !.message_group_old_own = Append(@, last.id)], time_limit)
                  ELSE SeqMoveAgedToTail([rest EXCEPT !.message_group_old = Append(@, last.id)], time_limit)

RECURSIVE SeqMoveAged(_, _)
SeqMoveAged(F, time_limit) ==
    IF F.message_group_new = <<>> THEN F
    ELSE LET last == F.message_group_new[Len(F.message_group_new)]
             rest == [F EXCEPT !.message_group_new = SubSeq(@, 1, Len(@) - 1)]
         IN  IF last.id > time_limit THEN F
             ELSE IF last.own
                  THEN SeqMoveAged([rest EXCEPT !.message_group_old_own = AppendLeft(@, last.id)], time_limit)
                  ELSE SeqMoveAged([rest EXCEPT !.message_group_old = AppendLeft(@, last.id)], time_limit)

SeqCollectedSome(collected) == collected >= 1

(* `elif collected == 1:` one message is not worth a bulk request *)
SeqCollectedOne(collected) == collected = 1

(* `if (delete_new_task is None):` before the one collected message is sent *)
SeqDeleteNewAlways(F) == TRUE

SeqCanDeleteNew(F) == F.delete_new_task = NoTask

SeqDeleteNewRescans(F, t) ==
    IF F.message_group_new = <<>> THEN F
    ELSE IF F.delete_mass_task # NoTask
    THEN SeqMoveAged([F EXCEPT !.scanned = TRUE], RescanLimit(SafeLimit(t)))
    ELSE LET time_limit == SafeLimit(t)
             group == F.message_group_new
             collected == Collect(group, time_limit, 0)
             popped == [F EXCEPT !.message_group_new = SubSeq(group, collected + 1, Len(group))]
             F1 == IF collected = 0 THEN F
                   ELSE IF SeqCollectedOne(collected)
                        THEN IF SeqCanDeleteNew(F)
                             THEN Spawn(popped, "delete_new_task", "message_delete", <<group[1].id>>, 1, t)
                             ELSE F
                        ELSE Spawn(popped, "delete_mass_task", "message_delete_multiple",
                                   Ids(SubSeq(group, 1, collected)), 1, t)
         IN  IF F1.message_group_new = <<>> THEN F1
             ELSE SeqMoveAged([F1 EXCEPT !.scanned = TRUE], RescanLimit(time_limit))

SeqDeleteNew(F, t) ==
    IF F.delete_mass_task # NoTask \/ F.message_group_new = <<>> THEN F
    ELSE LET time_limit == SafeLimit(t)
             group == F.message_group_new
             collected == Collect(group, time_limit, 0)
             popped == [F EXCEPT !.message_group_new = SubSeq(group, collected + 1, Len(group))]
             F1 == IF collected = 0 THEN F
                   ELSE IF SeqCollectedOne(collected)
                        THEN IF SeqCanDeleteNew(F)
                             THEN Spawn(popped, "delete_new_task", "message_delete", <<group[1].id>>, 1, t)
                             ELSE F
                        ELSE Spawn(popped, "delete_mass_task", "message_delete_multiple",
                                   Ids(SubSeq(group, 1, collected)), 1, t)
         IN  IF F1.message_group_new = <<>> THEN F1
             ELSE SeqMoveAged([F1 EXCEPT !.scanned = TRUE], RescanLimit(time_limit))

SeqDeleteOldOwnPolite(F, t) ==
    IF F.delete_old_task = NoTask /\ F.message_group_old_own # <<>>
    THEN Spawn([F EXCEPT !.message_group_old_own = Tail(@)], "delete_old_task", "message_delete_b2wo",
               <<Head(F.message_group_old_own)>>, 1, t)
    ELSE F

SeqDeleteOldOwn(F, t) ==
    IF F.delete_new_task = NoTask /\ F.message_group_old_own # <<>>
    THEN Spawn([F EXCEPT !.message_group_old_own = Tail(@)], "delete_new_task", "message_delete",
               <<Head(F.message_group_old_own)>>, 1, t)
    ELSE F

SeqDeleteOld(F, t) ==
    IF F.delete_old_task = NoTask /\ F.message_group_old # <<>>
    THEN Spawn([F EXCEPT !.message_group_old = Tail(@)], "delete_old_task", "message_delete_b2wo",
               <<Head(F.message_group_old)>>, 1, t)
    ELSE F

SeqFallbackNothing(F, t) == F

SeqFallbackGeneral(F, t) ==
    Spawn([F EXCEPT !.message_group_new = Tail(@)], "delete_new_task", "message_delete",
          <<Head(F.message_group_new).id>>, 1, t)

SeqFallbackIdle(F, t) == [F EXCEPT !.message_group_new = Tail(@)]

SeqFallbackKeep(F, t) ==
    LET head == Head(F.message_group_new)
    IN  IF head.own
        THEN Spawn(F, "delete_new_task", "message_delete", <<head.id>>, 1, t)
        ELSE Spawn(F, "delete_old_task", "message_delete_b2wo", <<head.id>>, 1, t)

(* `if not tasks:` with a message left in message_group_new *)
SeqFallback(F, t) ==
    LET head == Head(F.message_group_new)
        rest == [F EXCEPT !.message_group_new = Tail(@)]
    IN  IF head.own
        THEN Spawn(rest, "delete_new_task", "message_delete", <<head.id>>, 1, t)
        ELSE Spawn(rest, "delete_old_task", "message_delete_b2wo", <<head.id>>, 1, t)

SeqNothingLeftAlways(F) == TRUE

(* `if not message_group_new: break` *)
SeqNothingLeft(F) == F.message_group_new = <<>>

(* The end of a loop pass: `if not tasks:` and what follows it, up to the await. *)
SeqPassEnd(F, t) ==
    IF F.tasks # <<>> THEN F
    ELSE IF SeqNothingLeft(F) THEN [F EXCEPT !.error = "break"]
    ELSE SeqFallback(F, t)

(* One pass of the `while True:` loop, up to the await.  Each step's frame is
   bound once it is computed. *)
SeqLoop ==
    /\ fn = "message_delete_sequence"
    /\ pc = "loop"
    /\ UNCHANGED <<fn, now, channel, permissions, after, before, input,
                 calls, delete_system, outcomes, returned>>
    /\ \E F1 \in {SeqRequest(Frame, now)} :
       \E F2 \in {SeqDeleteNew(F1, now)} :
       \E F3 \in {SeqDeleteOldOwn(F2, now)} :
       \E F4 \in {SeqDeleteOld(F3, now)} :
       \E F5 \in {SeqPassEnd(F4, now)} :
          IF F5.error = "break"
          THEN pc' = "done" /\ Store([F5 EXCEPT !.error = ""])
          ELSE pc' = "wait" /\ Store(F5)

RECURSIVE SeqEnqueuePage(_, _, _, _)
SeqEnqueuePage(F, result, index, time_limit) ==
    IF index > Len(result) THEN F
    ELSE LET message_data == result[index]
             F1 == [F EXCEPT !.last_message_id = message_data.id]
         IN  IF F1.last_message_id < after THEN [F1 EXCEPT !.should_request = FALSE]
             ELSE LET F2 == Enqueue(F1, message_data.id, message_data.author = 1, time_limit)
                      F3 == [F2 EXCEPT !.limit = @ - 1]
                  IN  IF ~SeqLimitReached(F3.limit) THEN SeqEnqueuePage(F3, result, index + 1, time_limit)
                      ELSE [F3 EXCEPT !.should_request = FALSE]

SeqShortPageNever(received_count) == received_count = 0

(* `if received_count < 100:` the page is not a full one *)
SeqShortPage(received_count) == received_count < PageSize

(* The body of `for task in done:` for a task whose result() does not raise. *)
SeqDone(F, task, t) ==
    LET F0 == [F EXCEPT !.tasks = Remove(@, task)]
    IN  IF task = F0.get_mass_task
        THEN LET result == HistoryPage(F0.requests[task].before)
                 F1 == [F0 EXCEPT !.get_mass_task = NoTask,
                                  !.should_request = IF SeqShortPage(Len(result)) THEN FALSE ELSE @]
             IN  IF Len(result) = 0 THEN F1
                 ELSE SeqEnqueuePage(F1, result, 1, BulkLimit(t))
        ELSE IF task = F0.delete_mass_task THEN [F0 EXCEPT !.delete_mass_task = NoTask]
        ELSE IF task = F0.delete_new_task THEN [F0 EXCEPT !.delete_new_task = NoTask]
        ELSE IF task = F0.delete_old_task THEN [F0 EXCEPT !.delete_old_task = NoTask]
        ELSE F0

(* `for task in done:` over the done tasks `order`, all of which succeed; the
   handling of distinct tasks commutes, so one order stands for all. *)
RECURSIVE SeqDoneAll(_, _, _)
SeqDoneAll(F, order, t) ==
    IF order = <<>> THEN F
    ELSE CHOOSE R \in {SeqDoneAll(G, Tail(order), t) : G \in {SeqDone(F, Head(order), t)}} : TRUE

SeqRaiseOnly(F, bad, exception) ==
    [F EXCEPT !.tasks = Remove(@, bad), !.failed = bad, !.error = exception]

(* `except: for task in tasks: task.cancel(); raise` for the task `bad`, whose
   result() raises. *)
SeqRaise(F, bad, exception) ==
    [F EXCEPT !.tasks = Remove(@, bad), !.failed = bad,
              !.cancelled = Range(Remove(F.tasks, bad)), !.error = exception]

(* await WaitTillFirst(tasks, KOKORO): the tasks `done` are done at time t and
   none of them raises. *)
SeqWait ==
    /\ fn = "message_delete_sequence"
    /\ pc = "wait"
    /\ UNCHANGED <<fn, channel, permissions, after, before, input,
                 calls, delete_system, outcomes, returned>>
    /\ \E t \in now..(Start + MaxElapsed) :
       \E done \in {d \in SUBSET Range(tasks) : d # {} /\ Cardinality(d) <= MaxDone} :
       \E F \in {SeqDoneAll(Frame, DescSeq(done), t)} :
          /\ now' = t
          /\ pc' = "loop"
          /\ Store(F)

(* await WaitTillFirst(tasks, KOKORO): of the done tasks, the loop handles
   `first` and then meets `bad`, whose result() raises. *)
SeqWaitRaise ==
    /\ fn = "message_delete_sequence"
    /\ pc = "wait"
    /\ UNCHANGED <<fn, channel, permissions, after, before, input,
                 calls, delete_system, outcomes, returned>>
    /\ \E t \in now..(Start + MaxElapsed) :
       \E bad \in Range(tasks) :
       \E first \in {d \in SUBSET (Range(tasks) \ {bad}) : Cardinality(d) < MaxDone} :
       \E exception \in Failures :
       \E F \in {SeqRaise(SeqDoneAll(Frame, DescSeq(first), t), bad, exception)} :
          /\ now' = t
          /\ pc' = "raised"
          /\ Store(F)

(* The call message_delete_sequence(channel, after_, before_, limit_) *)
SeqStart(after_, before_, limit_) ==
    /\ fn = "message_delete_sequence"
    /\ pc = "start"
    /\ now = Start
    /\ permissions \in [can_manage_messages : BOOLEAN, can_read_message_history : BOOLEAN]
    /\ \E history \in Histories({0, 1}, {FALSE}) :
       \E cached \in 0..Len(history) :
       \E reached_end \in BOOLEAN :
          /\ reached_end => cached = Len(history)
          \* messages the client cannot ask for are never seen
          /\ ~permissions.can_read_message_history => cached = Len(history)
          /\ channel = [messages |-> SubSeq(history, 1, cached), history |-> history,
                        message_history_reached_end |-> reached_end]
    /\ sharders = <<>>
    /\ after = after_
    /\ before = before_
    /\ limit = limit_
    /\ input = <<>>
    /\ message_group_new = <<>>
    /\ message_group_old = <<>>
    /\ message_group_old_own = <<>>
    /\ should_request = FALSE
    /\ last_message_id = 0
    /\ tasks = <<>>
    /\ get_mass_task = NoTask
    /\ get_mass_task_next = 0
    /\ delete_mass_task = NoTask
    /\ delete_new_task = NoTask
    /\ delete_old_task = NoTask
    /\ requests = <<>>
    /\ scanned = FALSE
    /\ enqueued = {}
    /\ fresh = {}
    /\ failed = NoTask
    /\ cancelled = {}
    /\ error = ""
    /\ calls = 0
    /\ delete_system = <<>>
    /\ outcomes = <<>>
    /\ returned = NotReturned

InitSeq == SeqStart(0, BeforeMax, Unlimited)

NextSeq == SeqBegin \/ SeqLoop \/ SeqWait \/ SeqWaitRaise

NextSeqOk == SeqBegin \/ SeqLoop \/ SeqWait

SpecSeq == InitSeq /\ [][NextSeq]_vars

SpecSeqLive == InitSeq /\ [][NextSeqOk]_vars /\ WF_vars(NextSeqOk)

(* The values of `after`, `before` and `limit` the method is called with:
   the defaults, an interval inside the channel, and no or one message to
   delete. *)
Afters == {0, MaxMsgs}

Befores == {MaxMsgs - 1, BeforeMax}

Limits == {-1, 0, 1, 2, Unlimited}

InitSeqArgs ==
    \E after_ \in Afters : \E before_ \in Befores : \E limit_ \in Limits :
        SeqStart(after_, before_, limit_)

SpecSeqArgs == InitSeqArgs /\ [][NextSeq]_vars

----------------------------------------------------------------------------
(* message_delete_multiple, on a guild channel *)

MulNoneDeleted(message) == FALSE

(* `if message.deleted: continue` *)
MulDeleted(message) == message.deleted

RECURSIVE MulClassify(_, _, _)
MulClassify(F, index, bulk_delete_limit) ==
    IF index > Len(input) THEN F
    ELSE LET message == input[index]
         IN  IF MulDeleted(message) THEN MulClassify(F, index + 1, bulk_delete_limit)
             ELSE MulClassify(Enqueue(F, message.id, message.author = 1, bulk_delete_limit),
                              index + 1, bulk_delete_limit)

MulBegin ==
    /\ fn = "message_delete_multiple"
    /\ pc = "start"
    /\ UNCHANGED <<fn, now, channel, permissions, after, before, input,
                 calls, delete_system, outcomes, returned>>
    /\ IF input = <<>>
       THEN pc' = "done" /\ Store(Frame)
       ELSE \E F \in {MulClassify(Frame, 1, BulkLimit(now))} :
               pc' = "loop" /\ Store(F)

(* `if (message_id+20971520000) < limit: continue`: the popped message is let go *)
MulSkipStale(message_id, limit_) == (message_id + RescanBack) < limit_

(* `if message_id > limit:` the popped message goes into the request *)
MulCollects(message_id, limit_) == message_id > limit_

(* `while message_group_new:` of the batch assembly; C.F is the frame and
   C.message_ids the ids collected so far. *)
RECURSIVE MulCollect(_, _)
MulCollect(C, limit_) ==
    IF C.F.message_group_new = <<>> THEN C
    ELSE LET head == Head(C.F.message_group_new)
             F1 == [C.F EXCEPT !.message_group_new = Tail(@)]
         IN  IF MulCollects(head.id, limit_)
             THEN IF Len(C.message_ids) + 1 = BulkCap
                  THEN [F |-> F1, message_ids |-> Append(C.message_ids, head.id)]
                  ELSE MulCollect([F |-> F1, message_ids |-> Append(C.message_ids, head.id)], limit_)
             ELSE IF MulSkipStale(head.id, limit_)
                  THEN MulCollect([C EXCEPT !.F = F1], limit_)
             ELSE IF head.own
                  THEN MulCollect([C EXCEPT !.F = [F1 EXCEPT !.message_group_old_own = AppendLeft(@, head.id)]], limit_)
                  ELSE MulCollect([C EXCEPT !.F = [F1 EXCEPT !.message_group_old = AppendLeft(@, head.id)]], limit_)

MulDeleteNew(F, t) ==
    IF F.delete_mass_task # NoTask \/ F.message_group_new = <<>> THEN F
    ELSE LET C == MulCollect([F |-> F, message_ids |-> <<>>], SafeLimit(t))
             message_count == Len(C.message_ids)
         IN  IF message_count = 0 THEN C.F
             ELSE IF message_count = 1
                  THEN IF C.F.delete_new_task = NoTask
                       THEN Spawn(C.F, "delete_new_task", "message_delete", C.message_ids, 1, t)
                       ELSE C.F
                  ELSE Spawn(C.F, "delete_mass_task", "message_delete_multiple", C.message_ids, 1, t)

MulDeleteOld(F, t) ==
    IF F.delete_old_task = NoTask /\ F.message_group_old # <<>>
    THEN Spawn([F EXCEPT !.message_group_old = Tail(@)], "delete_old_task", "message_delete_b2wo",
               <<Head(F.message_group_old)>>, 1, t)
    ELSE F

(* `group` is chosen among message_group_new and message_group_old_own, and the
   message is popped from message_group_old_own: an IndexError when it is empty. *)
MulDeleteOldOwn(F, t) ==
    IF F.delete_new_task # NoTask THEN F
    ELSE IF F.message_group_new = <<>> /\ F.message_group_old_own = <<>> THEN F
    ELSE IF F.message_group_old_own = <<>> THEN [F EXCEPT !.error = "IndexError"]
    ELSE Spawn([F EXCEPT !.message_group_old_own = Tail(@)], "delete_new_task", "message_delete",
               <<Head(F.message_group_old_own)>>, 1, t)

(* `if not tasks:` with a message left: the task is stored in delete_new_task
   or delete_old_task, and `tasks.append(delete_old_task)` follows. *)
MulFallback(F, t) ==
    LET head == Head(F.message_group_new)
        rest == [F EXCEPT !.message_group_new = Tail(@)]
        n == Len(F.requests) + 1
        made == [rest EXCEPT !.requests = Append(@, [k |-> IF head.own THEN "message_delete" ELSE "message_delete_b2wo",
                                                     ids |-> <<head.id>>, by |-> 1, at |-> t, before |-> 0])]
    IN  IF head.own
        THEN [made EXCEPT !.delete_new_task = n, !.tasks = Append(@, made.delete_old_task)]
        ELSE [made EXCEPT !.delete_old_task = n, !.tasks = Append(@, n)]

MulPassEnd(F, t) ==
    IF F.error # "" \/ F.tasks # <<>> THEN F
    ELSE IF F.message_group_new = <<>> THEN [F EXCEPT !.error = "break"]
    ELSE MulFallback(F, t)

MulLoop ==
    /\ fn = "message_delete_multiple"
    /\ pc = "loop"
    /\ UNCHANGED <<fn, now, channel, permissions, after, before, input,
                 calls, delete_system, outcomes, returned>>
    /\ \E F1 \in {MulDeleteNew(Frame, now)} :
       \E F2 \in {MulDeleteOld(F1, now)} :
       \E F3 \in {MulDeleteOldOwn(F2, now)} :
       \E F4 \in {MulPassEnd(F3, now)} :
          IF F4.error = "break" THEN pc' = "done" /\ Store([F4 EXCEPT !.error = ""])
          ELSE IF F4.error # "" THEN pc' = "raised" /\ Store(F4)
          ELSE pc' = "wait" /\ Store(F4)

MulDone(F, task) ==
    LET F0 == [F EXCEPT !.tasks = Remove(@, task)]
    IN  IF task = F0.delete_mass_task THEN [F0 EXCEPT !.delete_mass_task = NoTask]
        ELSE IF task = F0.delete_new_task THEN [F0 EXCEPT !.delete_new_task = NoTask]
        ELSE IF task = F0.delete_old_task THEN [F0 EXCEPT !.delete_old_task = NoTask]
        ELSE F0

RECURSIVE MulDoneAll(_, _)
MulDoneAll(F, order) ==
    IF order = <<>> THEN F
    ELSE CHOOSE R \in {MulDoneAll(G, Tail(order)) : G \in {MulDone(F, Head(order))}} : TRUE

(* `except (DiscordException, ConnectionError): for task in tasks:
   task.cancel(); raise` for the task `bad`; any other exception leaves the
   method as it is. *)
MulRaise(F, bad, exception) ==
    IF exception \in Failures THEN SeqRaise(F, bad, exception)
    ELSE [F EXCEPT !.tasks = Remove(@, bad), !.failed = bad, !.error = exception]

(* WaitTillFirst(tasks, KOKORO) is handed a None *)
WaitTillFirstFails(tasks_) == NoTask \in Range(tasks_)

MulWait ==
    /\ fn = "message_delete_multiple"
    /\ pc = "wait"
    /\ ~WaitTillFirstFails(tasks)
    /\ UNCHANGED <<fn, channel, permissions, after, before, input,
                 calls, delete_system, outcomes, returned>>
    /\ \E t \in now..(Start + MaxElapsed) :
       \E done \in {d \in SUBSET Range(tasks) : d # {} /\ Cardinality(d) <= MaxDone} :
       \E F \in {MulDoneAll(Frame, DescSeq(done))} :
          /\ now' = t
          /\ pc' = "loop"
          /\ Store(F)

MulWaitRaise ==
    /\ fn = "message_delete_multiple"
    /\ pc = "wait"
    /\ UNCHANGED <<fn, channel, permissions, after, before, input,
                 calls, delete_system, outcomes, returned>>
    /\ IF WaitTillFirstFails(tasks)
       THEN /\ now' = now
            /\ pc' = "raised"
            /\ Store([Frame EXCEPT !.error = "AttributeError"])
       ELSE \E t \in now..(Start + MaxElapsed) :
            \E bad \in Range(tasks) :
            \E first \in {d \in SUBSET (Range(tasks) \ {bad}) : Cardinality(d) < MaxDone} :
            \E exception \in Failures \cup {"Exception"} :
            \E F \in {MulRaise(MulDoneAll(Frame, DescSeq(first)), bad, exception)} :
               /\ now' = t
               /\ pc' = "raised"
               /\ Store(F)

InitMul ==
    /\ fn = "message_delete_multiple"
    /\ pc = "start"
    /\ now = Start
    /\ permissions = [can_manage_messages |-> TRUE, can_read_message_history |-> TRUE]
    /\ input \in Histories({0, 1}, BOOLEAN)
    /\ channel = [messages |-> <<>>, history |-> input, message_history_reached_end |-> FALSE]
    /\ sharders = <<>>
    /\ after = 0
    /\ before = BeforeMax
    /\ limit = Unlimited
    /\ message_group_new = <<>>
    /\ message_group_old = <<>>
    /\ message_group_old_own = <<>>
    /\ should_request = FALSE
    /\ last_message_id = 0
    /\ tasks = <<>>
    /\ get_mass_task = NoTask
    /\ get_mass_task_next = 0
    /\ delete_mass_task = NoTask
    /\ delete_new_task = NoTask
    /\ delete_old_task = NoTask
    /\ requests = <<>>
    /\ scanned = FALSE
    /\ enqueued = {}
    /\ fresh = {}
    /\ failed = NoTask
    /\ cancelled = {}
    /\ error = ""
    /\ calls = 0
    /\ delete_system = <<>>
    /\ outcomes = <<>>
    /\ returned = NotReturned

NextMul == MulBegin \/ MulLoop \/ MulWait \/ MulWaitRaise

SpecMul == InitMul /\ [][NextMul]_vars

-----------------------------------------------------------------------------
(* The two schedulers of one client: message_delete_sequence or
   message_delete_multiple is called. *)

InitSingle == InitSeq \/ InitMul

NextSingle == NextSeq \/ NextMul

SpecSingle == InitSingle /\ [][NextSingle]_vars

----------------------------------------------------------------------------
(* multi_client_message_delete_sequence.  sharders[i] is the sharder of client
   i; the source's indexes (whos, get_mass_task_next) count from 0, and whos
   is -1 for a message of none of the sharders' clients. *)

(* The deque message_group_old itself, where the source puts it in the place of
   a message id. *)
MessageGroupOld == -1

(* is_own_getter.get(author_id, -1) *)
Whos(author) == IF author \in 1..Len(sharders) THEN author - 1 ELSE -1

Min(S) == CHOOSE x \in S : \A y \in S : x <= y

(* Task(coro, KOKORO) of sharders[index], tasks.append(task) and the assignment
   of the task to the sharder's `slot`. *)
SpawnAt(F, index, slot, k, ids, t) ==
    LET n == Len(F.requests) + 1
    IN  [F EXCEPT !.requests = Append(@, [k |-> k, ids |-> ids, by |-> index, at |-> t, before |-> 0]),
                  !.tasks = Append(@, n),
                  !.sharders[index][slot] = n]

McEnqueue(F, id, whos, time_limit) ==
    LET G == [F EXCEPT !.enqueued = @ \cup {id}]
    IN  IF id > time_limit
        THEN [G EXCEPT !.message_group_new = Append(@, [whos |-> whos, id |-> id]),
                       !.fresh = @ \cup {id}]
        ELSE IF whos = -1
             THEN [G EXCEPT !.message_group_old = Append(@, id)]
             ELSE [G EXCEPT !.message_group_old_own = Append(@, [whos |-> whos, id |-> id])]

RECURSIVE McLoadCache(_, _, _, _)
McLoadCache(F, before_index, after_index, time_limit) ==
    IF before_index = after_index THEN F
    ELSE LET message_ == channel.messages[before_index + 1]
             F1 == McEnqueue([F EXCEPT !.last_message_id = message_.id], message_.id,
                             Whos(message_.author), time_limit)
             F2 == [F1 EXCEPT !.limit = @ - 1]
         IN  IF F2.limit # 0 THEN McLoadCache(F2, before_index + 1, after_index, time_limit)
             ELSE [F2 EXCEPT !.should_request = FALSE]

McCanRequest ==
    /\ ~channel.message_history_reached_end
    /\ \E i \in 1..Len(sharders) : sharders[i].can_read_message_history

McSomebodyManages(sharders_) == FALSE

(* `for sharder in sharders: if sharder.can_manage_messages: break` runs into
   its `else: return` *)
McNobodyManages(sharders_) == \A i \in 1..Len(sharders_) : ~sharders_[i].can_manage_messages

McBegin ==
    /\ fn = "multi_client_message_delete_sequence"
    /\ pc = "start"
    /\ UNCHANGED <<fn, now, channel, permissions, after, before, input,
                 calls, delete_system, outcomes, returned>>
    /\ IF \/ sharders = <<>>
          \/ McNobodyManages(sharders)
          \/ before < after
          \/ limit <= 0
       THEN /\ pc' = "done"
            /\ Store(Frame)
       ELSE LET F0 == [Frame EXCEPT !.should_request = McCanRequest,
                                    !.last_message_id = before,
                                    !.get_mass_task_next = 0]
                before_index == message_relativeindex(channel.messages, before)
                after_index == message_relativeindex(channel.messages, after)
            IN  /\ pc' = "loop"
                /\ Store(McLoadCache(F0, before_index, after_index, BulkLimit(now)))

(* The `while True:` that looks for the sharder of the next history request. *)
McNextAny(sharders_, next) == IF next >= Len(sharders_) THEN 0 ELSE next

RECURSIVE McNextReader(_, _)
McNextReader(sharders_, next) ==
    LET index == IF next >= Len(sharders_) THEN 0 ELSE next
    IN  IF sharders_[index + 1].can_read_message_history THEN index
        ELSE McNextReader(sharders_, index + 1)

McRequest(F, t) ==
    IF F.should_request /\ F.get_mass_task = NoTask
    THEN LET index == McNextReader(F.sharders, F.get_mass_task_next)
         IN  Spawn([F EXCEPT !.get_mass_task_next = index], "get_mass_task", "message_logs",
                   <<>>, index + 1, t)
    ELSE F

RECURSIVE McMoveAged(_, _)
McMoveAged(F, time_limit) ==
    IF F.message_group_new = <<>> THEN F
    ELSE LET last == F.message_group_new[Len(F.message_group_new)]
             rest == [F EXCEPT !.message_group_new = SubSeq(@, 1, Len(@) - 1)]
         IN  IF last.id > time_limit THEN F
             ELSE IF last.whos = -1
                  THEN McMoveAged([rest EXCEPT !.message_group_old = AppendLeft(@, last.id)], time_limit)
                  ELSE McMoveAged([rest EXCEPT !.message_group_old_own =
                                       AppendLeft(@, [whos |-> last.whos, id |-> MessageGroupOld])],
                                  time_limit)

(* `if (sub_sharder.can_manage_messages) and (sharder.delete_new_task is None):` *)
McCanDeleteNew(F, sharder, sub_sharder) ==
    F.sharders[sub_sharder].can_manage_messages /\ F.sharders[sharder].delete_new_task = NoTask

(* The body of `for sharder in sharders:` of the batch assembly *)
McDeleteNew(F, sharder, t) ==
    IF \/ ~F.sharders[sharder].can_manage_messages
       \/ F.sharders[sharder].delete_mass_task # NoTask
       \/ F.message_group_new = <<>>
    THEN F
    ELSE LET time_limit == SafeLimit(t)
             group == F.message_group_new
             collected == Collect(group, time_limit, 0)
             popped == [F EXCEPT !.message_group_new = SubSeq(group, collected + 1, Len(group))]
             sub_sharders == {i \in 1..Len(F.sharders) : McCanDeleteNew(F, sharder, i)}
             F1 == IF collected = 0 THEN F
                   ELSE IF collected = 1
                        THEN IF sub_sharders # {}
                             THEN SpawnAt(popped, Min(sub_sharders), "delete_new_task", "message_delete",
                                          <<group[1].id>>, t)
                             ELSE F
                        ELSE SpawnAt(popped, sharder, "delete_mass_task", "message_delete_multiple",
                                     Ids(SubSeq(group, 1, collected)), t)
         IN  IF F1.message_group_new = <<>> THEN F1
             ELSE McMoveAged([F1 EXCEPT !.scanned = TRUE], RescanLimit(time_limit))

RECURSIVE McDeleteNewAll(_, _, _)
McDeleteNewAll(F, sharder, t) ==
    IF sharder > Len(F.sharders) THEN F
    ELSE CHOOSE R \in {McDeleteNewAll(G, sharder + 1, t) : G \in {McDeleteNew(F, sharder, t)}} : TRUE

McDeleteOldOwn(F, t) ==
    IF F.message_group_old_own = <<>> THEN F
    ELSE LET head == Head(F.message_group_old_own)
         IN  IF F.sharders[head.whos + 1].delete_new_task = NoTask
             THEN SpawnAt([F EXCEPT !.message_group_old_own = Tail(@)], head.whos + 1,
                          "delete_new_task", "message_delete", <<head.id>>, t)
             ELSE F

(* `for sharder in sharders:` over message_group_old *)
RECURSIVE McDeleteOld(_, _, _)
McDeleteOld(F, sharder, t) ==
    IF sharder > Len(F.sharders) \/ F.message_group_old = <<>> THEN F
    ELSE IF F.sharders[sharder].delete_old_task = NoTask
         THEN CHOOSE R \in {McDeleteOld(G, sharder + 1, t) :
                  G \in {SpawnAt([F EXCEPT !.message_group_old = Tail(@)], sharder, "delete_old_task",
                                 "message_delete_b2wo", <<Head(F.message_group_old)>>, t)}} : TRUE
         ELSE McDeleteOld(F, sharder + 1, t)

McFallback(F, t) ==
    LET head == Head(F.message_group_new)
        rest == [F EXCEPT !.message_group_new = Tail(@)]
    IN  IF head.whos = -1
        THEN SpawnAt(rest, Min({i \in 1..Len(F.sharders) : F.sharders[i].can_manage_messages}),
                     "delete_old_task", "message_delete_b2wo", <<head.id>>, t)
        ELSE SpawnAt(rest, head.whos + 1, "delete_new_task", "message_delete", <<head.id>>, t)

McPassEnd(F, t) ==
    IF F.tasks # <<>> THEN F
    ELSE IF F.message_group_new = <<>> THEN [F EXCEPT !.error = "break"]
    ELSE McFallback(F, t)

McLoop ==
    /\ fn = "multi_client_message_delete_sequence"
    /\ pc = "loop"
    /\ UNCHANGED <<fn, now, channel, permissions, after, before, input,
                 calls, delete_system, outcomes, returned>>
    /\ \E F1 \in {McRequest(Frame, now)} :
       \E F2 \in {McDeleteNewAll(F1, 1, now)} :
       \E F3 \in {McDeleteOldOwn(F2, now)} :
       \E F4 \in {McDeleteOld(F3, 1, now)} :
       \E F5 \in {McPassEnd(F4, now)} :
          IF F5.error = "break"
          THEN pc' = "done" /\ Store([F5 EXCEPT !.error = ""])
          ELSE pc' = "wait" /\ Store(F5)

RECURSIVE McEnqueuePage(_, _, _, _)
McEnqueuePage(F, result, index, time_limit) ==
    IF index > Len(result) THEN F
    ELSE LET message_data == result[index]
             F1 == [F EXCEPT !.last_message_id = message_data.id]
         IN  IF F1.last_message_id < after THEN [F1 EXCEPT !.should_request = FALSE]
             ELSE LET F2 == McEnqueue(F1, message_data.id, Whos(message_data.author), time_limit)
                      F3 == [F2 EXCEPT !.limit = @ - 1]
                  IN  IF F3.limit # 0 THEN McEnqueuePage(F3, result, index + 1, time_limit)
                      ELSE [F3 EXCEPT !.should_request = FALSE]

(* `for sharder in sharders:` that empties the slot holding the done task *)
McClear(F, task) ==
    LET holders == {i \in 1..Len(F.sharders) :
                        task \in {F.sharders[i].delete_mass_task, F.sharders[i].delete_new_task,
                                  F.sharders[i].delete_old_task}}
        sharder == Min(holders)
    IN  IF holders = {} THEN F
        ELSE IF task = F.sharders[sharder].delete_mass_task
             THEN [F EXCEPT !.sharders[sharder].delete_mass_task = NoTask]
        ELSE IF task = F.sharders[sharder].delete_new_task
             THEN [F EXCEPT !.sharders[sharder].delete_new_task = NoTask]
        ELSE [F EXCEPT !.sharders[sharder].delete_old_task = NoTask]

McDone(F, task, t) ==
    LET F0 == [F EXCEPT !.tasks = Remove(@, task)]
    IN  IF task = F0.get_mass_task
        THEN LET result == HistoryPage(F0.requests[task].before)
                 F1 == [F0 EXCEPT !.get_mass_task = NoTask,
                                  !.should_request = IF Len(result) < PageSize THEN FALSE ELSE @]
             IN  IF Len(result) = 0 THEN F1
                 ELSE McClear(McEnqueuePage(F1, result, 1, BulkLimit(t)), task)
        ELSE McClear(F0, task)

RECURSIVE McDoneAll(_, _, _)
McDoneAll(F, order, t) ==
    IF order = <<>> THEN F
    ELSE CHOOSE R \in {McDoneAll(G, Tail(order), t) : G \in {McDone(F, Head(order), t)}} : TRUE

McWait ==
    /\ fn = "multi_client_message_delete_sequence"
    /\ pc = "wait"
    /\ UNCHANGED <<fn, channel, permissions, after, before, input,
                 calls, delete_system, outcomes, returned>>
    /\ \E t \in now..(Start + MaxElapsed) :
       \E done \in {d \in SUBSET Range(tasks) : d # {} /\ Cardinality(d) <= MaxDone} :
       \E F \in {McDoneAll(Frame, DescSeq(done), t)} :
          /\ now' = t
          /\ pc' = "loop"
          /\ Store(F)

McWaitRaise ==
    /\ fn = "multi_client_message_delete_sequence"
    /\ pc = "wait"
    /\ UNCHANGED <<fn, channel, permissions, after, before, input,
                 calls, delete_system, outcomes, returned>>
    /\ \E t \in now..(Start + MaxElapsed) :
       \E bad \in Range(tasks) :
       \E first \in {d \in SUBSET (Range(tasks) \ {bad}) : Cardinality(d) < MaxDone} :
       \E F \in {SeqRaise(McDoneAll(Frame, DescSeq(first), t), bad, "ConnectionError")} :
          /\ now' = t
          /\ pc' = "raised"
          /\ Store(F)

(* The call multi_client_message_delete_sequence(channel) of a pool of `clients`
   clients with the given permissions at the channel, the channel holding
   `history` of which the first `cached` messages are loaded. *)
McStart(clients, can_manage_messages, can_read_message_history, history, cached, reached_end) ==
    /\ fn = "multi_client_message_delete_sequence"
    /\ pc = "start"
    /\ now = Start
    /\ permissions = [can_manage_messages |-> FALSE, can_read_message_history |-> FALSE]
    /\ sharders = [i \in 1..clients |->
                      [client |-> i, can_manage_messages |-> can_manage_messages[i],
                       can_read_message_history |-> can_read_message_history[i],
                       delete_mass_task |-> NoTask, delete_new_task |-> NoTask,
                       delete_old_task |-> NoTask]]
    /\ channel = [messages |-> SubSeq(history, 1, cached), history |-> history,
                  message_history_reached_end |-> reached_end]
    /\ after = 0
    /\ before = BeforeMax
    /\ limit = Unlimited
    /\ input = <<>>
    /\ message_group_new = <<>>
    /\ message_group_old = <<>>
    /\ message_group_old_own = <<>>
    /\ should_request = FALSE
    /\ last_message_id = 0
    /\ tasks = <<>>
    /\ get_mass_task = NoTask
    /\ get_mass_task_next = 0
    /\ delete_mass_task = NoTask
    /\ delete_new_task = NoTask
    /\ delete_old_task = NoTask
    /\ requests = <<>>
    /\ scanned = FALSE
    /\ enqueued = {}
    /\ fresh = {}
    /\ failed = NoTask
    /\ cancelled = {}
    /\ error = ""
    /\ calls = 0
    /\ delete_system = <<>>
    /\ outcomes = <<>>
    /\ returned = NotReturned

InitMc ==
    \E clients \in 0..MaxClients :
    \E can_manage_messages \in [1..clients -> BOOLEAN] :
    \E can_read_message_history \in [1..clients -> BOOLEAN] :
    \E history \in Histories(0..clients, {FALSE}) :
    \E cached \in {0, Len(history)} :
    \E reached_end \in BOOLEAN :
       /\ reached_end => cached = Len(history)
       /\ (\A i \in 1..clients : ~can_read_message_history[i]) => cached = Len(history)
       \* a client with neither permission gets no sharder
       /\ \A i \in 1..clients : can_manage_messages[i] \/ can_read_message_history[i]
       /\ McStart(clients, can_manage_messages, can_read_message_history, history, cached, reached_end)

NextMc == McBegin \/ McLoop \/ McWait \/ McWaitRaise

SpecMc == InitMc /\ [][NextMc]_vars

(* The pool of MaxClients clients that all may delete and read at the channel,
   any part of the channel's messages being loaded. *)
InitMcPool ==
    \E history \in Histories(0..MaxClients, {FALSE}) :
    \E cached \in 0..Len(history) :
    \E reached_end \in BOOLEAN :
       /\ reached_end => cached = Len(history)
       /\ McStart(MaxClients, [i \in 1..MaxClients |-> TRUE], [i \in 1..MaxClients |-> TRUE],
                  history, cached, reached_end)

SpecMcPool == InitMcPool /\ [][NextMc]_vars

(* Scenario D: a pool of two clients, one that may read the channel's history
   but not delete and one that may delete but not read, in either order, on a
   channel that holds messages of other users. *)
InitScenarioD ==
    \E reader \in 1..2 :
    \E history \in Histories({0}, {FALSE}) :
    \E cached \in 0..Len(history) :
    \E reached_end \in BOOLEAN :
       /\ reached_end => cached = Len(history)
       /\ McStart(2, [i \in 1..2 |-> i # reader], [i \in 1..2 |-> i = reader],
                  history, cached, reached_end)

SpecScenarioD == InitScenarioD /\ [][NextMc]_vars

-----------------------------------------------------------------------------
(* message_delete: input = <<message>>.  The message object outlives the
   call, so that the method may be called with it again. *)

MaxCalls == 2               \* calls of message_delete with the same message

(* `(message.author is self) or (message.id > int((time_now()-1209590.)...` *)
DelOwnOrNew(message, t) == message.author = 1 \/ message.id > SafeLimit(t)

(* `message.deleted = True` *)
DelMark(messages_) == [messages_ EXCEPT ![1].deleted = TRUE]

DelFailedMarks(messages_) == [messages_ EXCEPT ![1].deleted = TRUE]

(* `await coro` raises: the statement after it is not reached *)
DelFailed(messages_) == messages_

(* The method up to `await coro` *)
DelBegin ==
    /\ fn = "message_delete"
    /\ pc = "start"
    /\ UNCHANGED <<fn, now, channel, permissions, after, before, input,
                   calls, delete_system, outcomes, returned>>
    /\ IF input[1].deleted
       THEN /\ pc' = "done"
            /\ Store(Frame)
       ELSE /\ pc' = "wait"
            /\ Store([Frame EXCEPT !.requests =
                        Append(@, [k |-> IF DelOwnOrNew(input[1], now) THEN "message_delete"
                                         ELSE "message_delete_b2wo",
                                   ids |-> <<input[1].id>>, by |-> 1, at |-> now, before |-> 0])])

(* `await coro` returns at time t *)
DelDone ==
    /\ fn = "message_delete"
    /\ pc = "wait"
    /\ UNCHANGED <<fn, channel, permissions, after, before, calls, delete_system, outcomes, returned>>
    /\ \E t \in now..(Start + MaxElapsed) : now' = t
    /\ input' = DelMark(input)
    /\ pc' = "done"
    /\ Store(Frame)

(* `await coro` raises at time t *)
DelRaise ==
    /\ fn = "message_delete"
    /\ pc = "wait"
    /\ UNCHANGED <<fn, channel, permissions, after, before, calls, delete_system, outcomes, returned>>
    /\ \E t \in now..(Start + MaxElapsed) : now' = t
    /\ input' = DelFailed(input)
    /\ pc' = "raised"
    /\ \E exception \in Failures :
          Store([Frame EXCEPT !.failed = Len(requests), !.error = exception])

(* The caller calls message_delete with the same message again. *)
DelCall ==
    /\ fn = "message_delete"
    /\ pc \in {"done", "raised"}
    /\ calls + 1 < MaxCalls
    /\ UNCHANGED <<fn, now, channel, permissions, after, before, input,
                   delete_system, outcomes, returned>>
    /\ calls' = calls + 1
    /\ pc' = "start"
    /\ Store([Frame EXCEPT !.failed = NoTask, !.error = ""])

(* The state in which no scheduler loop has run. *)
NoLoop ==
    /\ sharders = <<>>
    /\ after = 0
    /\ before = BeforeMax
    /\ limit = Unlimited
    /\ message_group_new = <<>>
    /\ message_group_old = <<>>
    /\ message_group_old_own = <<>>
    /\ should_request = FALSE
    /\ last_message_id = 0
    /\ tasks = <<>>
    /\ get_mass_task = NoTask
    /\ get_mass_task_next = 0
    /\ delete_mass_task = NoTask
    /\ delete_new_task = NoTask
    /\ delete_old_task = NoTask
    /\ requests = <<>>
    /\ scanned = FALSE
    /\ enqueued = {}
    /\ fresh = {}
    /\ failed = NoTask
    /\ cancelled = {}
    /\ error = ""
    /\ calls = 0
    /\ delete_system = <<>>
    /\ outcomes = <<>>
    /\ returned = NotReturned

InitDel ==
    /\ fn = "message_delete"
    /\ pc = "start"
    /\ now = Start
    /\ permissions = [can_manage_messages |-> TRUE, can_read_message_history |-> TRUE]
    /\ \E id \in 1..MaxId : \E author \in {0, 1} : \E deleted \in BOOLEAN :
          input = <<[id |-> id, author |-> author, deleted |-> deleted]>>
    /\ channel = [messages |-> <<>>, history |-> input, message_history_reached_end |-> FALSE]
    /\ NoLoop

NextDel == DelBegin \/ DelDone \/ DelRaise \/ DelCall

SpecDel == InitDel /\ [][NextDel]_vars

-----------------------------------------------------------------------------
(* message_delete_multiple2: input holds messages of up to MaxChannels
   channels.  outcomes[i] is the state of the i-th task, a
   message_delete_multiple call run as a Task: "pending", "None" when it
   returned, or the exception it raised. *)

MaxChannels == 2            \* channels the messages come from

(* The exceptions a message_delete_multiple task can end with *)
TaskFailures == Failures \cup {"IndexError"}

(* `delete_system[channel_id].append(message)` / `delete_system[channel_id] =
   [message]`: the groups in the order their channels first occur *)
RECURSIVE Group(_, _)
Group(system, messages_) ==
    IF messages_ = <<>> THEN system
    ELSE LET message == Head(messages_)
             known == {i \in 1..Len(system) : system[i].channel_id = message.channel}
         IN  IF known = {}
             THEN Group(Append(system, [channel_id |-> message.channel, messages |-> <<message>>]),
                        Tail(messages_))
             ELSE Group([system EXCEPT ![CHOOSE i \in known : TRUE].messages = Append(@, message)],
                        Tail(messages_))

(* The elements a list can get: the exception of a task, and the list
   `exceptions` itself *)
AnException(exception) == [is |-> "exception", name |-> exception]
TheList == [is |-> "list", name |-> "exceptions"]

(* `exceptions.append(exceptions)` *)
CollectsList(exceptions_, exception) == Append(exceptions_, TheList)

(* `for task in tasks:` over the finished tasks *)
RECURSIVE Exceptions(_, _)
Exceptions(outcomes_, index) ==
    IF index = 0 THEN <<>>
    ELSE IF outcomes_[index] = "None" THEN Exceptions(outcomes_, index - 1)
    ELSE CollectsList(Exceptions(outcomes_, index - 1), outcomes_[index])

(* The grouping and the creation of one task per group *)
Mul2Begin ==
    /\ fn = "message_delete_multiple2"
    /\ pc = "start"
    /\ UNCHANGED <<fn, now, channel, permissions, after, before, input, calls, returned>>
    /\ delete_system' = Group(<<>>, input)
    /\ outcomes' = [i \in 1..Len(delete_system') |-> "pending"]
    /\ pc' = "wait"
    /\ Store(Frame)

(* A task ends: its message_delete_multiple returns or raises *)
Mul2TaskEnds ==
    /\ fn = "message_delete_multiple2"
    /\ pc = "wait"
    /\ UNCHANGED <<fn, now, channel, permissions, after, before, input, calls, delete_system,
                   returned, pc>>
    /\ \E i \in 1..Len(outcomes) : \E outcome \in {"None"} \cup TaskFailures :
          /\ outcomes[i] = "pending"
          /\ outcomes' = [outcomes EXCEPT ![i] = outcome]
    /\ Store(Frame)

(* `await WaitTillAll(tasks, KOKORO)` returns, and what follows it *)
Mul2Return ==
    /\ fn = "message_delete_multiple2"
    /\ pc = "wait"
    /\ \A i \in 1..Len(outcomes) : outcomes[i] # "pending"
    /\ UNCHANGED <<fn, now, channel, permissions, after, before, input, calls, delete_system,
                   outcomes>>
    /\ \E exceptions \in {Exceptions(outcomes, Len(outcomes))} :
          returned' = IF exceptions # <<>> THEN ReturnedList(exceptions) ELSE ReturnedNone
    /\ pc' = "done"
    /\ Store(Frame)

(* Up to MaxMsgs messages with distinct ids, each of one of the channels *)
InitMul2 ==
    /\ fn = "message_delete_multiple2"
    /\ pc = "start"
    /\ now = Start
    /\ permissions = [can_manage_messages |-> TRUE, can_read_message_history |-> TRUE]
    /\ \E history \in Histories({0}, {FALSE}) :
       \E channel_of \in [1..Len(history) -> 1..MaxChannels] :
          input = [i \in 1..Len(history) |->
                      [id |-> history[i].id, author |-> history[i].author,
                       deleted |-> history[i].deleted, channel |-> channel_of[i]]]
    /\ channel = [messages |-> <<>>, history |-> input, message_history_reached_end |-> FALSE]
    /\ NoLoop

NextMul2 == Mul2Begin \/ Mul2TaskEnds \/ Mul2Return

SpecMul2 == InitMul2 /\ [][NextMul2]_vars

-----------------------------------------------------------------------------
(* message_delete or message_delete_multiple is called with messages of which
   some may be marked as deleted. *)

InitDeleted == InitDel \/ InitMul

NextDeleted == NextDel \/ NextMul

SpecDeleted == InitDeleted /\ [][NextDeleted]_vars

----------------------------------------------------------------------------
(* The three scheduler loops together: one of the methods is called. *)

Init == InitSeq \/ InitMul \/ InitMc

Next == NextSeq \/ NextMul \/ NextMc

Spec == Init /\ [][Next]_vars

----------------------------------------------------------------------------
(* message_delete_sequence on a channel whose messages are `count` messages
   with BulkCap < count <= 2 * BulkCap, all of them new when the method is
   called, the client having both permissions. *)

InitScenarioA ==
    /\ fn = "message_delete_sequence"
    /\ pc = "start"
    /\ now = Start
    /\ permissions = [can_manage_messages |-> TRUE, can_read_message_history |-> TRUE]
    /\ \E count \in (BulkCap + 1)..(2 * BulkCap) :
       \E author \in [1..count -> {0, 1}] :
       \E cached \in 0..count :
       \E reached_end \in BOOLEAN :
          /\ reached_end => cached = count
          /\ limit = count + 1
          /\ channel = [messages |-> [i \in 1..cached |->
                                         [id |-> SafeLimit(Start) + count - i, author |-> author[i],
                                          deleted |-> FALSE]],
                        history |-> [i \in 1..count |->
                                         [id |-> SafeLimit(Start) + count - i, author |-> author[i],
                                          deleted |-> FALSE]],
                        message_history_reached_end |-> reached_end]
    /\ sharders = <<>>
    /\ after = 0
    /\ before = BeforeMax
    /\ input = <<>>
    /\ message_group_new = <<>>
    /\ message_group_old = <<>>
    /\ message_group_old_own = <<>>
    /\ should_request = FALSE
    /\ last_message_id = 0
    /\ tasks = <<>>
    /\ get_mass_task = NoTask
    /\ get_mass_task_next = 0
    /\ delete_mass_task = NoTask
    /\ delete_new_task = NoTask
    /\ delete_old_task = NoTask
    /\ requests = <<>>
    /\ scanned = FALSE
    /\ enqueued = {}
    /\ fresh = {}
    /\ failed = NoTask
    /\ cancelled = {}
    /\ error = ""
    /\ calls = 0
    /\ delete_system = <<>>
    /\ outcomes = <<>>
    /\ returned = NotReturned

SpecScenarioA == InitScenarioA /\ [][NextSeq]_vars

----------------------------------------------------------------------------
(* What the requests made so far say about a message id. *)

DeleteRequests == {n \in 1..Len(requests) : requests[n].k # "message_logs"}

BulkRequests == {n \in 1..Len(requests) : requests[n].k = "message_delete_multiple"}

(* The delete requests that carry `id` *)
Carrying(id) == {n \in DeleteRequests : id \in Range(requests[n].ids)}

Count(s, x) == Cardinality({i \in 1..Len(s) : s[i] = x})

(* The ids of the first n requests' delete requests, in the order sent *)
RECURSIVE SubmittedIds(_)
SubmittedIds(n) ==
    IF n = 0 THEN <<>>
    ELSE SubmittedIds(n - 1) \o (IF requests[n].k = "message_logs" THEN <<>> ELSE requests[n].ids)

(* How often `id` was handed to a delete request *)
Submissions(id) == Count(SubmittedIds(Len(requests)), id)

Author(id) == (CHOOSE m \in Range(channel.history) : m.id = id).author

SingleKindOf(id) == IF Author(id) = 1 THEN "message_delete" ELSE "message_delete_b2wo"

PendingKinds == [i \in 1..Len(tasks) |-> requests[tasks[i]].k]

GroupNewIds == Ids(message_group_new)

GroupOldOwnIds ==
    IF fn = "multi_client_message_delete_sequence" THEN Ids(message_group_old_own)
    ELSE message_group_old_own

QueuedIds == GroupNewIds \o message_group_old \o GroupOldOwnIds

(* How often `id` stands in the three message groups *)
Queued(id) == Count(QueuedIds, id)

SingleRequests == DeleteRequests \ BulkRequests

BulkSizes == [i \in 1..Cardinality(BulkRequests) |->
                 Len(requests[CHOOSE n \in BulkRequests :
                                  Cardinality({m \in BulkRequests : m <= n}) = i].ids)]

----------------------------------------------------------------------------
(* C1: in message_delete_sequence no two pending tasks use the same rate
   limited endpoint (message_logs, message_delete_multiple, message_delete,
   message_delete_b2wo): a task is created on an endpoint only when the loop
   has seen the endpoint's previous task done. *)
C1_OnePendingPerChannel ==
    fn = "message_delete_sequence" =>
        \A i, j \in 1..Len(tasks) : i # j => PendingKinds[i] # PendingKinds[j]

(* A pass left a message waiting because its endpoint is busy. *)
C1_Witness ==
    /\ fn = "message_delete_sequence"
    /\ pc = "wait"
    /\ delete_new_task # NoTask
    /\ delete_new_task \in Range(tasks)
    /\ message_group_old_own # <<>>

(* C4: if every task completes without raising, message_delete_sequence
   returns. *)
C4_Terminates == <>(pc = "done")

(* The run ended after the fallback sent a message that sat in the margin
   between the re-scan limit and the safety limit. *)
C4_Witness ==
    /\ fn = "message_delete_sequence"
    /\ pc = "done"
    /\ \E n \in DeleteRequests :
          /\ Len(requests[n].ids) = 1
          /\ requests[n].ids[1] < SafeLimit(requests[n].at)
          /\ requests[n].ids[1] > RescanLimit(SafeLimit(requests[n].at))

(* C5: when message_delete_sequence returns, no task is pending, the three
   message groups are empty, no more history is to be requested, and every
   id that was put into a group was handed to exactly one delete request. *)
C5_ReturnsDrained ==
    (fn = "message_delete_sequence" /\ pc = "done") =>
        /\ tasks = <<>>
        /\ get_mass_task = NoTask /\ delete_mass_task = NoTask
        /\ delete_new_task = NoTask /\ delete_old_task = NoTask
        /\ message_group_new = <<>>
        /\ message_group_old = <<>>
        /\ message_group_old_own = <<>>
        /\ ~should_request
        /\ \A id \in enqueued : Submissions(id) = 1

(* A run that requested history and deleted several messages has returned. *)
C5_Witness ==
    /\ fn = "message_delete_sequence"
    /\ pc = "done"
    /\ Cardinality(enqueued) >= 2
    /\ \E n \in 1..Len(requests) : requests[n].k = "message_logs"

(* C8: right after a loop pass that re-scanned the tail of message_group_new,
   no message left in it has an id at or below now - 2 weeks. *)
C8_RescanLeavesNoAged ==
    (fn = "message_delete_sequence" /\ scanned) =>
        \A i \in 1..Len(message_group_new) : message_group_new[i].id > BulkLimit(now)

(* A re-scan moved a message that had been classified new and left another. *)
C8_Witness ==
    /\ fn = "message_delete_sequence"
    /\ scanned
    /\ message_group_new # <<>>
    /\ \E id \in fresh : id \in Range(message_group_old) \cup Range(message_group_old_own)

(* C9: a message that was classified new and whose id fell to or below
   now - 2 weeks before it was sent is not lost: while unsent it is in a
   message group, in message_group_old_own only if own and in
   message_group_old only if not, and it is sent alone, through message_delete
   if own and through message_delete_b2wo if not, never in a bulk request. *)
C9_AgedFreshSentSingly ==
    fn = "message_delete_sequence" =>
        \A id \in fresh :
            /\ \A n \in Carrying(id) :
                  id <= BulkLimit(requests[n].at) =>
                      requests[n].ids = <<id>> /\ requests[n].k = SingleKindOf(id)
            /\ id \in Range(message_group_old_own) => Author(id) = 1
            /\ id \in Range(message_group_old) => Author(id) # 1
            /\ (Carrying(id) = {} /\ id <= BulkLimit(now) /\ pc # "raised") =>
                  /\ pc # "done"
                  /\ id \in Range(Ids(message_group_new)) \cup Range(message_group_old)
                                \cup Range(message_group_old_own)

(* A message classified new was sent when its id was at or below
   now - 2 weeks, and the run returned. *)
C9_Witness ==
    /\ fn = "message_delete_sequence"
    /\ pc = "done"
    /\ \E id \in fresh : \E n \in Carrying(id) : id <= BulkLimit(requests[n].at)

(* C2: every message_delete_multiple request, of each of the three methods,
   carries at least 2 and at most BulkCap (the source's 100) message ids. *)
C2_BulkSize ==
    \A n \in BulkRequests :
        Len(requests[n].ids) >= 2 /\ Len(requests[n].ids) <= BulkCap

(* A full request was just made and a message that could have gone with it is
   still in message_group_new. *)
C2_Witness ==
    \E n \in BulkRequests :
        /\ Len(requests[n].ids) = BulkCap
        /\ requests[n].at = now
        /\ pc = "wait"
        /\ \E i \in 1..Len(message_group_new) : message_group_new[i].id >= SafeLimit(now)

(* C3 as stated: every id of a bulk request is strictly above the safety limit
   (now - 2 weeks + 10 s) computed when the request is put together. *)
C3_BulkAboveSafeLimit ==
    \A n \in BulkRequests : \A i \in 1..Len(requests[n].ids) :
        requests[n].ids[i] > SafeLimit(requests[n].at)

(* C3, amended: no id of a bulk request is below the safety limit computed
   when the request is put together; an id equal to the limit can be in a
   request of message_delete_sequence and of
   multi_client_message_delete_sequence, and in message_delete_multiple
   every id is strictly above the limit. *)
C3_BulkNotBelowSafeLimit ==
    \A n \in BulkRequests : \A i \in 1..Len(requests[n].ids) :
        /\ requests[n].ids[i] >= SafeLimit(requests[n].at)
        /\ fn = "message_delete_multiple" => requests[n].ids[i] > SafeLimit(requests[n].at)

(* A bulk request made after the clock advanced holds an id equal to the
   limit of that moment. *)
C3_Witness ==
    \E n \in BulkRequests :
        /\ requests[n].at > Start
        /\ \E i \in 1..Len(requests[n].ids) : requests[n].ids[i] = SafeLimit(requests[n].at)

(* No enqueued id is in two delete requests, in a request and in a message
   group, or twice in the groups. *)
AtMostOnce ==
    \A places \in {SubmittedIds(Len(requests)) \o QueuedIds} :
        \A i, j \in 1..Len(places) :
            (i < j /\ places[i] = places[j]) => places[i] \notin enqueued

(* An id enters a message group only when it is enqueued for the first time
   or, for the two old groups, when it is moved there from message_group_new. *)
EntersOnce ==
    LET moved == Range(GroupNewIds) \ Range(GroupNewIds')
    IN  /\ (Range(GroupNewIds') \ Range(GroupNewIds)) \cap enqueued = {}
        /\ (Range(message_group_old') \ Range(message_group_old)) \cap enqueued \subseteq moved
        /\ (Range(GroupOldOwnIds') \ Range(GroupOldOwnIds)) \cap enqueued \subseteq moved

(* C6: in message_delete_sequence and multi_client_message_delete_sequence,
   after every step an enqueued id is in at most one delete request and never
   at once in a request and in a message group (AtMostOnce), and no group gets
   back an id that left it: a step puts an id into a group only as EntersOnce
   says. *)
C6_NeverDeletedTwice ==
    [][(fn \in {"message_delete_sequence", "multi_client_message_delete_sequence"}) =>
           (AtMostOnce' /\ EntersOnce)]_vars

(* The multi client method returned after a message moved from
   message_group_new to message_group_old was sent and another message was
   sent in another request. *)
C6_Witness ==
    /\ fn = "multi_client_message_delete_sequence"
    /\ pc = "done"
    /\ \E id \in fresh : \E n \in Carrying(id) :
          /\ requests[n].k = "message_delete_b2wo"
          /\ id <= BulkLimit(requests[n].at)
          /\ \E other \in enqueued \ {id} : Carrying(other) # {} /\ Carrying(other) # {n}

(* C7 as stated: once message_delete_multiple has classified its input, every
   input message not marked deleted is in exactly one place, a message group or
   a delete request, and when the method returns it is in exactly one delete
   request. *)
C7_MultipleDeletesAll ==
    (fn = "message_delete_multiple" /\ pc \in {"loop", "wait", "done"}) =>
        \A i \in 1..Len(input) :
            ~input[i].deleted => Submissions(input[i].id) + Queued(input[i].id) = 1

(* C10 as stated: when message_delete_sequence returns from a channel of
   `count` new messages, BulkCap < count <= 2 * BulkCap, it has made exactly two
   bulk requests, of BulkCap and of count - BulkCap ids, and no other delete
   request. *)
C10_TwoBulkRequests ==
    pc = "done" =>
        /\ BulkSizes = <<BulkCap, Len(channel.history) - BulkCap>>
        /\ SingleRequests = {}

(* C10, amended: the same, when count is at least BulkCap + 2, all the
   messages are in the channel's cache when the method is called, and none of
   them falls below the safety limit during the run. *)
C10_TwoBulkRequestsOfTwoOrMore ==
    (/\ pc = "done"
     /\ Len(channel.history) >= BulkCap + 2
     /\ Len(channel.messages) = Len(channel.history)
     /\ \A i \in 1..Len(channel.history) : channel.history[i].id >= SafeLimit(now)) =>
        /\ BulkSizes = <<BulkCap, Len(channel.history) - BulkCap>>
        /\ SingleRequests = {}

(* Such a run returned. *)
C10_Witness ==
    /\ pc = "done"
    /\ Len(channel.history) >= BulkCap + 2
    /\ Len(channel.messages) = Len(channel.history)
    /\ \A i \in 1..Len(channel.history) : channel.history[i].id >= SafeLimit(now)
    /\ Cardinality(BulkRequests) = 2

-----------------------------------------------------------------------------
(* Scenario B: the messages to delete are one message, younger than two weeks
   when the method is called, and the client may delete at the channel. *)
OneFreshItem ==
    /\ fn \in {"message_delete_sequence", "message_delete_multiple"}
    /\ permissions.can_manage_messages
    /\ Len(channel.history) = 1
    /\ ~channel.history[1].deleted
    /\ channel.history[1].id > BulkLimit(Start)

(* C11 as stated: when the messages to delete are exactly one message younger
   than two weeks, the method has made, when it returns, exactly one
   message_delete request and no message_delete_multiple request. *)
C11_OneFreshOneSingle ==
    (pc = "done" /\ OneFreshItem) =>
        /\ BulkRequests = {}
        /\ Cardinality({n \in DeleteRequests : requests[n].k = "message_delete"}) = 1

(* C11: when the messages to delete are exactly one message that is still
   above the safety limit (two weeks minus ten seconds) when the method
   returns, the method has made exactly one delete request, a message_delete
   carrying that message, and no message_delete_multiple request. *)
C11_OneFreshAboveSafeLimitOneSingle ==
    (pc = "done" /\ OneFreshItem /\ channel.history[1].id > SafeLimit(now)) =>
        /\ BulkRequests = {}
        /\ Cardinality(DeleteRequests) = 1
        /\ \A n \in DeleteRequests :
              requests[n].k = "message_delete" /\ requests[n].ids = <<channel.history[1].id>>

(* message_delete_sequence returned after it found the one message by a
   message_logs request and deleted it while it was above the safety limit. *)
C11_Witness ==
    /\ pc = "done"
    /\ OneFreshItem
    /\ fn = "message_delete_sequence"
    /\ channel.history[1].id > SafeLimit(now)
    /\ channel.messages = <<>>
    /\ \E n \in DeleteRequests : requests[n].k = "message_delete"

-----------------------------------------------------------------------------
(* The pending tasks of sharders[i] on the endpoint `k` *)
PendingOf(i, k) == {n \in Range(tasks) : requests[n].by = i /\ requests[n].k = k}

SlotKind(slot) ==
    IF slot = "delete_mass_task" THEN "message_delete_multiple"
    ELSE IF slot = "delete_new_task" THEN "message_delete"
    ELSE "message_delete_b2wo"

(* C12: in multi_client_message_delete_sequence, while the loop runs, each
   sharder's delete_mass_task, delete_new_task and delete_old_task is empty
   when the sharder's client has no pending request on that endpoint and
   holds the one pending request otherwise: a request is never started while
   the client's previous request on the same endpoint is pending, and a slot
   is never overwritten while its task is pending. *)
C12_SlotIffOnePending ==
    (fn = "multi_client_message_delete_sequence" /\ pc \in {"loop", "wait"}) =>
        \A i \in 1..Len(sharders) :
            \A slot \in {"delete_mass_task", "delete_new_task", "delete_old_task"} :
                IF sharders[i][slot] = NoTask
                THEN PendingOf(i, SlotKind(slot)) = {}
                ELSE PendingOf(i, SlotKind(slot)) = {sharders[i][slot]}

-----------------------------------------------------------------------------
(* C13: in multi_client_message_delete_sequence with one client that may read
   the history but not delete and one that may delete but not read, every
   message_logs request is made by the first, every delete request
   (message_delete_multiple, message_delete, message_delete_b2wo) by the
   second, and when the method returns every message of the channel was
   handed to a delete request. *)
C13_ReaderReadsDeleterDeletes ==
    fn = "multi_client_message_delete_sequence" =>
        /\ \A n \in 1..Len(requests) :
              IF requests[n].k = "message_logs"
              THEN sharders[requests[n].by].can_read_message_history
              ELSE sharders[requests[n].by].can_manage_messages
        /\ pc = "done" => \A m \in Range(channel.history) : Submissions(m.id) >= 1

-----------------------------------------------------------------------------
(* The step in which a done task's result() raises a ConnectionError: the
   tasks left in `tasks` all had cancel() called, and no request was made. *)
FatalStep ==
    (pc = "wait" /\ pc' = "raised" /\ error' = "ConnectionError") =>
        /\ failed' \in Range(tasks)
        /\ Range(tasks') \subseteq Range(tasks) \ {failed'}
        /\ cancelled' = Range(tasks')
        /\ requests' = requests

(* Once the exception left the method nothing more happens. *)
RaisedStep ==
    pc = "raised" => (pc' = "raised" /\ requests' = requests /\ error' = error /\ failed' = failed)

(* C14: when a task of message_delete_sequence or message_delete_multiple
   ends with a ConnectionError while other tasks are pending, the loop calls
   cancel() on every other pending task before the exception leaves the
   method, makes no request afterwards, and the one exception is what the
   caller gets. *)
C14_FatalCancelsAll ==
    [][(fn \in {"message_delete_sequence", "message_delete_multiple"}) => (FatalStep /\ RaisedStep)]_vars

(* A ConnectionError left the method while two other tasks were pending. *)
C14_Witness ==
    /\ fn \in {"message_delete_sequence", "message_delete_multiple"}
    /\ pc = "raised"
    /\ error = "ConnectionError"
    /\ Cardinality(Range(tasks)) = 2
    /\ cancelled = Range(tasks)

-----------------------------------------------------------------------------
(* C15: in multi_client_message_delete_sequence, when a task of one client
   ends with a ConnectionError, only that client's pending tasks have cancel()
   called, the tasks of the other clients stay pending, and with another
   client in the pool the method goes on instead of raising. *)
C15_FailureIsolated ==
    (fn = "multi_client_message_delete_sequence" /\ failed # NoTask) =>
        /\ Len(sharders) > 1 => pc # "raised"
        /\ \A n \in cancelled : requests[n].by = requests[failed].by

-----------------------------------------------------------------------------
(* C16: when a delete request of message_delete_sequence or
   message_delete_multiple fails with a DiscordException (the message or the
   channel is gone, the permission is lost), the loop does not stop: the
   exception does not leave the method and no pending task has cancel()
   called. *)
C16_LocalFailureSwallowed ==
    (/\ fn \in {"message_delete_sequence", "message_delete_multiple"}
     /\ failed # NoTask
     /\ error = "DiscordException"
     /\ requests[failed].k # "message_logs") =>
        /\ pc # "raised"
        /\ cancelled = {}

-----------------------------------------------------------------------------
(* C17: when the message_logs request of message_delete_sequence fails with a
   DiscordException, the method takes the history as ended: it asks for no
   more history, and it goes on deleting the messages in its groups instead
   of raising. *)
C17_HistoryFailureEndsHistory ==
    (/\ fn = "message_delete_sequence"
     /\ failed # NoTask
     /\ error = "DiscordException"
     /\ requests[failed].k = "message_logs") =>
        /\ pc # "raised"
        /\ ~should_request
        /\ cancelled = {}

-----------------------------------------------------------------------------
HistoryRequests == {n \in 1..Len(requests) : requests[n].k = "message_logs"}

Readers == {i \in 1..Len(sharders) : sharders[i].can_read_message_history}

(* C18: in multi_client_message_delete_sequence with two or more clients that
   may read the history, a message_logs request is made by another client
   than the message_logs request before it, and once as many requests were
   made as there are such clients, each of them has made one. *)
C18_HistoryRoundRobin ==
    (fn = "multi_client_message_delete_sequence" /\ Cardinality(Readers) >= 2) =>
        /\ \A m, n \in HistoryRequests :
              (m < n /\ \A o \in HistoryRequests : ~(m < o /\ o < n)) =>
                  requests[m].by # requests[n].by
        /\ Cardinality(HistoryRequests) >= Cardinality(Readers) =>
              \A i \in Readers : \E n \in HistoryRequests : requests[n].by = i

-----------------------------------------------------------------------------
(* C19: when no client of the pool has manage_messages at the channel,
   multi_client_message_delete_sequence returns at once: no message_logs and
   no delete request is ever made and no task is created, also when cached
   messages are of a client of the pool. *)
C19_NoDeleterNoRequest ==
    (/\ fn = "multi_client_message_delete_sequence"
     /\ \A i \in 1..Len(sharders) : ~sharders[i].can_manage_messages) =>
        /\ pc \in {"start", "done"}
        /\ requests = <<>>
        /\ tasks = <<>>

(* The method returned for a pool whose clients may only read, with a cached
   message of one of them. *)
C19_Witness ==
    /\ fn = "multi_client_message_delete_sequence"
    /\ pc = "done"
    /\ sharders # <<>>
    /\ \A i \in 1..Len(sharders) : ~sharders[i].can_manage_messages
    /\ \E m \in Range(channel.messages) : m.author >= 1

-----------------------------------------------------------------------------
(* The first step of a call that has nothing to do ends the call, and no
   request was made. *)
NothingToDoStep ==
    (pc = "start" /\ (~permissions.can_manage_messages \/ before < after \/ limit <= 0)) =>
        (pc' = "done" /\ requests' = <<>> /\ tasks' = <<>>)

(* After the return no request is made. *)
ReturnedStep == pc = "done" => (pc' = "done" /\ requests' = requests /\ tasks' = tasks)

(* C20: when the client has no manage_messages permission at the channel,
   message_delete_sequence returns at once without a message_logs or a delete
   request; so it does when before < after and when limit <= 0. *)
C20_NothingToDoReturns ==
    [][(fn = "message_delete_sequence") => (NothingToDoStep /\ ReturnedStep)]_vars

(* The method returned without a request for a reversed interval, the client
   having the permission and messages being cached. *)
C20_Witness ==
    /\ fn = "message_delete_sequence"
    /\ pc = "done"
    /\ permissions.can_manage_messages
    /\ before < after
    /\ limit > 0
    /\ channel.messages # <<>>
    /\ requests = <<>>

-----------------------------------------------------------------------------
(* A step of message_delete_sequence takes from `limit` what it puts into the
   message groups, never takes more than is left, and makes no message_logs
   request once nothing is left. *)
LimitStep ==
    /\ Cardinality(enqueued') + limit' = Cardinality(enqueued) + limit
    /\ limit >= 1 => limit' >= 0
    /\ (pc # "start" /\ limit = 0) =>
          {n \in 1..Len(requests') : requests'[n].k = "message_logs"} =
          {n \in 1..Len(requests) : requests[n].k = "message_logs"}

(* C21: over a run of message_delete_sequence called with limit L >= 1, with
   cached messages and history pages mixed in any way, every message put into
   a message group is counted off `limit`, which never falls below 0, so at
   most L ids are put into the groups; once L are in no message_logs request
   is started. *)
C21_LimitBoundsEnqueued ==
    [][(fn = "message_delete_sequence") => LimitStep]_vars

(* The method returned having taken 2 of 3 messages, one of them from a
   history page, with the limit used up. *)
C21_Witness ==
    /\ fn = "message_delete_sequence"
    /\ pc = "done"
    /\ limit = 0
    /\ Cardinality(enqueued) = 2
    /\ Len(channel.history) = 3
    /\ Len(channel.messages) = 1
    /\ \E n \in 1..Len(requests) : requests[n].k = "message_logs"

-----------------------------------------------------------------------------
(* The messages of `input` that are not marked as deleted, in their order *)
Kept == SelectSeq(input, LAMBDA m : ~m.deleted)

(* A message marked as deleted takes no part in the call: message_delete
   returns without a request, and message_delete_multiple fills its groups
   with the other messages alone and never hands the message's id to a
   request. *)
DeletedStep ==
    /\ (fn = "message_delete" /\ pc = "start" /\ input[1].deleted) =>
          (pc' = "done" /\ requests' = requests /\ error' = "" /\ input' = input)
    /\ (fn = "message_delete_multiple" /\ pc = "start" /\ input # <<>>) =>
          /\ pc' = "loop"
          /\ error' = ""
          /\ Ids(message_group_new') = Ids(SelectSeq(Kept, LAMBDA m : m.id > BulkLimit(now)))
          /\ message_group_old_own' =
                Ids(SelectSeq(Kept, LAMBDA m : m.id <= BulkLimit(now) /\ m.author = 1))
          /\ message_group_old' =
                Ids(SelectSeq(Kept, LAMBDA m : m.id <= BulkLimit(now) /\ m.author # 1))
    /\ fn = "message_delete_multiple" =>
          \A i \in 1..Len(input) :
              input[i].deleted =>
                  /\ input[i].id \notin enqueued'
                  /\ \A n \in 1..Len(requests') : input[i].id \notin Range(requests'[n].ids)

(* C22: a message already marked as deleted is a no-op and does not fail the
   call: message_delete makes no request for it, and message_delete_multiple
   puts the other messages into its groups as if the deleted ones had not
   been given and never enqueues or submits the id of a deleted one. *)
C22_DeletedIsNoOp ==
    [][(fn \in {"message_delete", "message_delete_multiple"}) => DeletedStep]_vars

(* message_delete_multiple returned after it was given a deleted message and
   another one, which it handed to a request. *)
C22_Witness ==
    /\ fn = "message_delete_multiple"
    /\ pc = "done"
    /\ \E i \in 1..Len(input) : input[i].deleted
    /\ \E i \in 1..Len(input) : ~input[i].deleted /\ Carrying(input[i].id) # {}

-----------------------------------------------------------------------------
(* A step of message_delete: the message is marked as deleted only by the
   step in which the request succeeds; when the request fails the exception
   leaves the method and the mark stays off; a call with an unmarked message
   makes a request. *)
MarkStep ==
    /\ (~input[1].deleted /\ input'[1].deleted) => (pc = "wait" /\ pc' = "done" /\ error' = "")
    /\ pc' = "raised" => (pc = "wait" /\ error' \in Failures /\ ~input'[1].deleted)
    /\ (pc = "start" /\ ~input[1].deleted) =>
          /\ pc' = "wait"
          /\ Len(requests') = Len(requests) + 1
          /\ requests'[Len(requests')].ids = <<input[1].id>>

(* C23: message_delete marks the message as deleted only after the request
   succeeded; when the request fails the failure leaves the method, the
   message's deleted stays False, and a later call makes the request
   again. *)
C23_MarkedOnlyOnSuccess ==
    [][(fn = "message_delete") => MarkStep]_vars

(* After a failed request a second call has made the request again. *)
C23_Witness ==
    /\ fn = "message_delete"
    /\ calls = 1
    /\ pc = "wait"
    /\ ~input[1].deleted
    /\ Len(requests) = 2
    /\ requests[1].ids = requests[2].ids

-----------------------------------------------------------------------------
(* The exceptions of the failed tasks, in the order of the tasks *)
RECURSIVE Raised(_)
Raised(index) ==
    IF index = 0 THEN <<>>
    ELSE IF outcomes[index] = "None" THEN Raised(index - 1)
    ELSE Append(Raised(index - 1), AnException(outcomes[index]))

(* C24: message_delete_multiple2 returns only when the tasks of all channel
   groups have finished; when some of them raised it returns a list whose
   elements are the exceptions of the failed tasks, one per failed task, and
   it returns None when none raised. *)
C24_ReturnsTheExceptions ==
    (fn = "message_delete_multiple2" /\ pc = "done") =>
        /\ \A i \in 1..Len(outcomes) : outcomes[i] # "pending"
        /\ Len(outcomes) = Len(delete_system)
        /\ IF Raised(Len(outcomes)) = <<>>
           THEN returned = ReturnedNone
           ELSE returned = ReturnedList(Raised(Len(outcomes)))

(* The parts of it that hold: the method waits for every task, returns None
   when none raised and otherwise a list with one element per failed task. *)
C24_ReturnsWhenAllFinished ==
    (fn = "message_delete_multiple2" /\ pc = "done") =>
        /\ \A i \in 1..Len(outcomes) : outcomes[i] # "pending"
        /\ Len(outcomes) = Len(delete_system)
        /\ IF Raised(Len(outcomes)) = <<>>
           THEN returned = ReturnedNone
           ELSE returned.value = "list" /\ Len(returned.list) = Len(Raised(Len(outcomes)))

-----------------------------------------------------------------------------
(* The ids a step puts into the message groups are classified by the bulk
   limit of the step's time: each is in exactly one group, the one of its
   class. *)
ClassifyStep ==
    \A id \in enqueued' \ enqueued :
        /\ Count(Ids(message_group_new') \o message_group_old' \o message_group_old_own', id) = 1
        /\ IF id > BulkLimit(now')
           THEN \E i \in 1..Len(message_group_new') :
                    message_group_new'[i] = [own |-> Author(id) = 1, id |-> id]
           ELSE IF Author(id) = 1
                THEN id \in Range(message_group_old_own')
                ELSE id \in Range(message_group_old')

(* C25: in message_delete_sequence a message whose id is above the bulk
   limit (now - 2 weeks) is put into message_group_new, any other into
   message_group_old_own when the client is its author and into
   message_group_old when not; so it is for the cached messages and for the
   messages of a history page, and each message is put into exactly one
   group. *)
C25_InitialClassification ==
    [][(fn = "message_delete_sequence") => ClassifyStep]_vars

(* One cached message was classified as new, and a history page brought an
   old message of the client and an old one of somebody else. *)
C25_Witness ==
    /\ fn = "message_delete_sequence"
    /\ pc = "loop"
    /\ Len(channel.messages) = 1
    /\ Cardinality(enqueued) = 3
    /\ Cardinality(fresh) = 1
    /\ message_group_old_own # <<>>
    /\ message_group_old # <<>>

-----------------------------------------------------------------------------
(* In a step no id leaves an old group for message_group_new or for the
   other old group. *)
OneWayStep ==
    /\ \A id \in Range(message_group_old) :
          id \notin Range(Ids(message_group_new')) /\ id \notin Range(message_group_old_own')
    /\ \A id \in Range(message_group_old_own) :
          id \notin Range(Ids(message_group_new')) /\ id \notin Range(message_group_old')

(* C26: in message_delete_sequence and message_delete_multiple a message may
   move from message_group_new into message_group_old_own or
   message_group_old, but a message in one of the two old groups is never
   moved into message_group_new nor into the other old group. *)
C26_ReclassifiedOneWay ==
    [][(fn \in {"message_delete_sequence", "message_delete_multiple"}) => OneWayStep]_vars

(* A message that was classified as new waits in an old group. *)
C26_Witness ==
    /\ fn \in {"message_delete_sequence", "message_delete_multiple"}
    /\ pc = "wait"
    /\ \E id \in fresh : id \in Range(message_group_old) \cup Range(message_group_old_own)

-----------------------------------------------------------------------------
(* The place of x in the sequence s *)
Pos(s, x) == CHOOSE i \in 1..Len(s) : s[i] = x

(* The step moved x from message_group_new into the old group that is `group`
   before and `group_` after the step, where y was waiting and still waits. *)
Joins(x, y, group, group_) ==
    /\ x \in Range(Ids(message_group_new))
    /\ x \in Range(group_)
    /\ y \in Range(group)
    /\ y \in Range(group_)

(* The step sent x, that was in message_group_new, with the request of the
   messages of message_group_old, in which y goes on waiting. *)
SentPast(x, y) ==
    /\ x \in Range(Ids(message_group_new))
    /\ y \in Range(message_group_old)
    /\ y \in Range(message_group_old')
    /\ Len(requests') > Len(requests)
    /\ \E n \in (Len(requests) + 1)..Len(requests') :
          requests'[n].k = "message_delete_b2wo" /\ requests'[n].ids = <<x>>

(* A message that is moved stands behind the messages that waited. *)
TailStep ==
    \A x, y \in enqueued :
        /\ Joins(x, y, message_group_old, message_group_old') =>
              Pos(message_group_old', y) < Pos(message_group_old', x)
        /\ Joins(x, y, message_group_old_own, message_group_old_own') =>
              Pos(message_group_old_own', y) < Pos(message_group_old_own', x)
        /\ ~SentPast(x, y)

(* A message that is moved stands before the messages that waited. *)
HeadStep ==
    \A x, y \in enqueued :
        /\ Joins(x, y, message_group_old, message_group_old') =>
              Pos(message_group_old', x) < Pos(message_group_old', y)
        /\ Joins(x, y, message_group_old_own, message_group_old_own') =>
              Pos(message_group_old_own', x) < Pos(message_group_old_own', y)

(* C27 as stated: a message moved out of message_group_new joins the tail of
   its old group, behind every message that was waiting there, and is sent
   after them. *)
C27_MovedJoinsTail ==
    [][(fn \in {"message_delete_sequence", "message_delete_multiple"}) => TailStep]_vars

(* C27: a message moved out of message_group_new joins the head of its old
   group (appendleft), before every message that was waiting there; the
   group being emptied from the head (popleft), it is sent before them. *)
C27_MovedJoinsHead ==
    [][(fn \in {"message_delete_sequence", "message_delete_multiple"}) => HeadStep]_vars

(* A message that was classified as new waits in message_group_old before a
   message that was classified as old. *)
C27_Witness ==
    /\ fn \in {"message_delete_sequence", "message_delete_multiple"}
    /\ pc = "wait"
    /\ \E x \in fresh : \E y \in enqueued \ fresh :
          /\ x \in Range(message_group_old)
          /\ y \in Range(message_group_old)
          /\ Pos(message_group_old, x) < Pos(message_group_old, y)

-----------------------------------------------------------------------------
(* The step moved x and y from message_group_new, where x stood before y,
   into the old group that is `group` before and `group_` after the step. *)
MovedTogether(x, y, group, group_) ==
    /\ x \in Range(Ids(message_group_new))
    /\ y \in Range(Ids(message_group_new))
    /\ Pos(Ids(message_group_new), x) < Pos(Ids(message_group_new), y)
    /\ x \notin Range(group)
    /\ y \notin Range(group)
    /\ x \in Range(group_)
    /\ y \in Range(group_)

KeepsOrderStep ==
    \A x, y \in enqueued :
        /\ MovedTogether(x, y, message_group_old, message_group_old') =>
              Pos(message_group_old', x) < Pos(message_group_old', y)
        /\ MovedTogether(x, y, message_group_old_own, message_group_old_own') =>
              Pos(message_group_old_own', x) < Pos(message_group_old_own', y)

(* C28: when one pass of message_delete_sequence moves two messages from
   message_group_new into the same old group, the one that stood before the
   other in message_group_new stands before it in the old group. *)
C28_MoveKeepsOrder ==
    [][(fn = "message_delete_sequence") => KeepsOrderStep]_vars

(* Two messages that were classified as new wait in the same old group. *)
C28_Witness ==
    /\ fn = "message_delete_sequence"
    /\ pc = "wait"
    /\ \E x, y \in fresh :
          /\ x # y
          /\ \/ {x, y} \subseteq Range(message_group_old)
             \/ {x, y} \subseteq Range(message_group_old_own)

-----------------------------------------------------------------------------
(* A step that is one pass of the loop of message_delete_sequence *)
SeqPassStep ==
    /\ fn = "message_delete_sequence"
    /\ pc = "loop"
    /\ pc' # "loop"

(* C29 as stated: every pass of the loop of message_delete_sequence that
   leaves a message in message_group_new has re-scanned it, a pass made while
   a bulk request is pending included. *)
C29_RescanOnEveryPass ==
    [][(SeqPassStep /\ message_group_new' # <<>>) => scanned']_vars

(* C29: the re-scan stands inside `if (delete_mass_task is None):`.  A pass
   made while no bulk request is pending, and that leaves a message in
   message_group_new, has re-scanned it; a pass made while a bulk request is
   pending does not re-scan and leaves the three groups' messages where they
   are, but for the heads it sends. *)
C29_RescanWhenNoBulkPending ==
    [][SeqPassStep =>
          /\ (delete_mass_task = NoTask /\ message_group_new' # <<>>) => scanned'
          /\ (delete_mass_task # NoTask) =>
                /\ ~scanned'
                /\ message_group_new' = message_group_new
                /\ Range(message_group_old') \subseteq Range(message_group_old)
                /\ Range(message_group_old_own') \subseteq Range(message_group_old_own)]_vars

(* After a pass made while the bulk request is pending, a message that is
   by now within the range of the re-scan is still in message_group_new. *)
C29_Witness ==
    /\ fn = "message_delete_sequence"
    /\ pc = "wait"
    /\ delete_mass_task # NoTask
    /\ ~scanned
    /\ \E index \in 1..Len(message_group_new) :
          message_group_new[index].id <= RescanLimit(SafeLimit(now))

-----------------------------------------------------------------------------
(* A step that is one pass of the loop of message_delete_sequence or of
   message_delete_multiple *)
PassStep ==
    /\ fn \in {"message_delete_sequence", "message_delete_multiple"}
    /\ pc = "loop"
    /\ pc' # "loop"

(* The batch assembly of this moment takes the id: `message_id < time_limit`
   ends the collection of message_delete_sequence, `message_id > limit` lets
   message_delete_multiple collect. *)
Collectable(x) ==
    IF fn = "message_delete_sequence" THEN x >= SafeLimit(now) ELSE x > SafeLimit(now)

(* The ids of message_group_new the batch assembly of this moment takes *)
Above == {x \in Range(Ids(message_group_new)) : Collectable(x)}

(* The pass of this moment leaves the id to message_group_new: it moves it
   to no old group. *)
Unmoved(x) ==
    IF fn = "message_delete_sequence" THEN x > RescanLimit(SafeLimit(now)) ELSE x > SafeLimit(now)

(* The step sends the id, which is in message_group_new and is not moved,
   in a request of its own of one of the kinds `kinds`. *)
SentAlone(x, kinds) ==
    /\ x \in Range(Ids(message_group_new))
    /\ Unmoved(x)
    /\ \E n \in (Len(requests) + 1)..Len(requests') :
          requests'[n].k \in kinds /\ requests'[n].ids = <<x>>

(* C30 as stated: a message of message_group_new goes in a message_delete
   request of its own only when it is the only message of message_group_new
   and delete_new_task is None; while delete_mass_task is None and
   message_group_new holds two messages or more, none of them goes in a
   request of its own. *)
C30_SingleOnlyWhenOneInGroup ==
    [][PassStep =>
          /\ \A x \in Range(Ids(message_group_new)) :
                SentAlone(x, {"message_delete"}) =>
                    Len(message_group_new) = 1 /\ delete_new_task = NoTask
          /\ (delete_mass_task = NoTask /\ Len(message_group_new) >= 2) =>
                \A x \in Range(Ids(message_group_new)) :
                    ~SentAlone(x, {"message_delete", "message_delete_b2wo"})]_vars

(* C30: what counts is the number of messages the batch assembly collects,
   not the length of message_group_new.  A message of message_group_new goes
   in a request of its own either when it is the only one collected while
   delete_mass_task and delete_new_task are None (a message_delete request),
   or, in message_delete_sequence, when it is not collected and the pass
   found no task running and started no other.  While delete_mass_task is
   None and two messages or more are collected, none of message_group_new
   goes in a request of its own and a bulk request is made. *)
C30_SingleOnlyWhenOneCollected ==
    [][PassStep =>
          /\ \A x \in Range(Ids(message_group_new)) :
                SentAlone(x, {"message_delete", "message_delete_b2wo"}) =>
                    \/ /\ delete_mass_task = NoTask
                       /\ delete_new_task = NoTask
                       /\ Above = {x}
                       /\ SentAlone(x, {"message_delete"})
                    \/ /\ fn = "message_delete_sequence"
                       /\ tasks = <<>>
                       /\ x \notin Above
                       /\ Len(requests') = Len(requests) + 1
          /\ (delete_mass_task = NoTask /\ Cardinality(Above) >= 2) =>
                /\ \A x \in Range(Ids(message_group_new)) :
                      ~SentAlone(x, {"message_delete", "message_delete_b2wo"})
                /\ \E n \in (Len(requests) + 1)..Len(requests') :
                      requests'[n].k = "message_delete_multiple"]_vars

(* The one collected message is in a message_delete request of its own, no
   bulk request is pending, and message_group_new holds another message. *)
C30_Witness ==
    /\ fn \in {"message_delete_sequence", "message_delete_multiple"}
    /\ pc = "wait"
    /\ delete_mass_task = NoTask
    /\ delete_new_task # NoTask
    /\ message_group_new # <<>>
    /\ requests[delete_new_task].k = "message_delete"
    /\ \E x \in fresh :
          /\ requests[delete_new_task].ids = <<x>>
          /\ x >= SafeLimit(requests[delete_new_task].at)

-----------------------------------------------------------------------------
(* C31: when the client cannot read the channel's history, or the channel's
   history was read to its end, message_delete_sequence starts with
   should_request False and makes no message_logs request in the whole run. *)
C31_NoHistoryRequestWithoutRead ==
    (/\ fn = "message_delete_sequence"
     /\ channel.message_history_reached_end \/ ~permissions.can_read_message_history) =>
        /\ ~should_request
        /\ get_mass_task = NoTask
        /\ \A n \in 1..Len(requests) : requests[n].k # "message_logs"

(* A run of a client that cannot read the history has ended after it made
   delete requests. *)
C31_Witness ==
    /\ fn = "message_delete_sequence"
    /\ pc = "done"
    /\ ~permissions.can_read_message_history
    /\ ~channel.message_history_reached_end
    /\ requests # <<>>

-----------------------------------------------------------------------------
(* The message_logs requests among the requests `made`, in the order made *)
LogsRequests(made) == SelectSeq(made, LAMBDA r : r.k = "message_logs")

(* The step handles the result of the pending message_logs request. *)
PageStep ==
    /\ fn = "message_delete_sequence"
    /\ pc = "wait"
    /\ get_mass_task # NoTask
    /\ get_mass_task' = NoTask
    /\ failed' # get_mass_task

(* The page that request n received *)
PageOf(n) == HistoryPage(requests[n].before)

(* should_request is False and stays so, and no message_logs request is made. *)
DrainingStep ==
    /\ ~should_request'
    /\ get_mass_task' = NoTask
    /\ Len(LogsRequests(requests')) = Len(LogsRequests(requests))

(* C32: in message_delete_sequence, once should_request is False it stays
   False and no message_logs request is started any more; a page shorter than
   a full one, a received message older than `after` and a used up limit each
   set it False; and every message_logs request asks for the messages before
   an id that is smaller than that of the request before it. *)
C32_DrainingAbsorbs ==
    [][(fn = "message_delete_sequence" /\ pc # "start") =>
          /\ (~should_request /\ get_mass_task = NoTask) => DrainingStep
          /\ (PageStep /\ \/ Len(PageOf(get_mass_task)) < PageSize
                          \/ \E index \in 1..Len(PageOf(get_mass_task)) :
                                PageOf(get_mass_task)[index].id < after
                          \/ limit' = 0) => ~should_request'
          /\ \A m, n \in 1..Len(LogsRequests(requests')) :
                m < n => LogsRequests(requests')[n].before < LogsRequests(requests')[m].before]_vars

(* After a full page and a second request, should_request is False. *)
C32_Witness ==
    /\ fn = "message_delete_sequence"
    /\ pc = "loop"
    /\ ~should_request
    /\ get_mass_task = NoTask
    /\ Len(LogsRequests(requests)) >= 2

-----------------------------------------------------------------------------
(* C33: in multi_client_message_delete_sequence at most one message_logs
   request is pending at any moment, get_mass_task names it, and every
   message_logs request is made by a client that can read the history. *)
C33_OneHistoryRequestByReader ==
    (fn = "multi_client_message_delete_sequence") =>
        /\ Cardinality({n \in Range(tasks) : requests[n].k = "message_logs"}) <= 1
        /\ \A n \in Range(tasks) : requests[n].k = "message_logs" => get_mass_task = n
        /\ \A n \in 1..Len(requests) :
              requests[n].k = "message_logs" =>
                  sharders[requests[n].by].can_read_message_history

(* The second client's message_logs request is pending after an earlier one
   was answered, in a pool whose first client cannot read the history. *)
C33_Witness ==
    /\ fn = "multi_client_message_delete_sequence"
    /\ pc = "wait"
    /\ Len(sharders) = 2
    /\ ~sharders[1].can_read_message_history
    /\ get_mass_task \in Range(tasks)
    /\ requests[get_mass_task].by = 2
    /\ Len(LogsRequests(requests)) >= 2

-----------------------------------------------------------------------------

(* C34: in message_delete_sequence and message_delete_multiple a message of
   message_group_old is only sent alone with message_delete_b2wo, a message
   of message_group_old_own is only sent alone with message_delete, and a
   message_delete_multiple request holds only messages that the pass found
   in message_group_new. *)
C34_EndpointOfGroup ==
    [][PassStep =>
          \A n \in (Len(requests) + 1)..Len(requests') :
              /\ \A x \in Range(message_group_old) :
                    x \in Range(requests'[n].ids) =>
                        requests'[n].k = "message_delete_b2wo" /\ requests'[n].ids = <<x>>
              /\ \A x \in Range(message_group_old_own) :
                    x \in Range(requests'[n].ids) =>
                        requests'[n].k = "message_delete" /\ requests'[n].ids = <<x>>
              /\ requests'[n].k = "message_delete_multiple" =>
                    Range(requests'[n].ids) \subseteq Range(Ids(message_group_new))]_vars

(* A message classified as old and not own is in the pending
   message_delete_b2wo request, and one classified as old and own in the
   pending message_delete request. *)
C34_Witness ==
    /\ fn \in {"message_delete_sequence", "message_delete_multiple"}
    /\ pc = "wait"
    /\ delete_old_task \in Range(tasks)
    /\ delete_new_task \in Range(tasks)
    /\ requests[delete_old_task].k = "message_delete_b2wo"
    /\ requests[delete_new_task].k = "message_delete"
    /\ Range(requests[delete_old_task].ids) \subseteq enqueued \ fresh
    /\ Range(requests[delete_new_task].ids) \subseteq enqueued \ fresh

-----------------------------------------------------------------------------
(* The ids of the channel's messages whose author is the client of sharder
   `whos` (counted from 0) *)
IdsOf(whos) == {m.id : m \in {m \in Range(channel.history) : m.author = whos + 1}}

(* C35: in multi_client_message_delete_sequence every entry of
   message_group_old_own holds the id of a message of the channel and the
   sharder of its author, whether classified there or moved there from
   message_group_new, and every message_delete request carries the id of a
   message of the channel. *)
C35_MovedKeepsIdAndOwner ==
    (fn = "multi_client_message_delete_sequence") =>
        /\ \A index \in 1..Len(message_group_old_own) :
              message_group_old_own[index].id \in IdsOf(message_group_old_own[index].whos)
        /\ \A n \in 1..Len(requests) :
              requests[n].k = "message_delete" =>
                  \A x \in Range(requests[n].ids) : \E m \in Range(channel.history) : m.id = x

-----------------------------------------------------------------------------
(* The step takes the message at `index` of message_group_new out of it, and
   its id is not above the limit of the batch assembly. *)
TakenNotAbove(index) ==
    /\ message_group_new[index].id \notin Range(Ids(message_group_new'))
    /\ ~MulCollects(message_group_new[index].id, SafeLimit(now))

(* The step put the id in the old group `group_`, whose head it may have sent
   in a request of kind k. *)
MovedInto(x, group_, k) ==
    \/ x \in Range(group_)
    \/ \E n \in (Len(requests) + 1)..Len(requests') :
          requests'[n].k = k /\ requests'[n].ids = <<x>>

(* C36: in message_delete_multiple every message that the batch assembly
   takes from message_group_new and finds not above the limit is moved to
   message_group_old_own if own and to message_group_old otherwise, from
   where the same pass may send it; none is let go. *)
C36_NotAboveIsMoved ==
    [][(fn = "message_delete_multiple" /\ pc = "loop") =>
          \A index \in 1..Len(message_group_new) :
              TakenNotAbove(index) =>
                  IF message_group_new[index].own
                  THEN MovedInto(message_group_new[index].id, message_group_old_own', "message_delete")
                  ELSE MovedInto(message_group_new[index].id, message_group_old', "message_delete_b2wo")]_vars

-----------------------------------------------------------------------------
(* C37: whenever one of the three methods is at `await WaitTillFirst(tasks,
   KOKORO)`, tasks is not empty and each of its elements is a task that was
   made for a request and is still pending: none is None, none is listed
   twice. *)
C37_WaitsOnPendingTasks ==
    (/\ fn \in {"message_delete_multiple", "message_delete_sequence",
                "multi_client_message_delete_sequence"}
     /\ pc = "wait") =>
        /\ tasks # <<>>
        /\ \A index \in 1..Len(tasks) :
              /\ tasks[index] # NoTask
              /\ tasks[index] \in 1..Len(requests)
              /\ \A other \in 1..Len(tasks) : tasks[other] = tasks[index] => other = index

(* message_delete_sequence waits on the one task that its fallback made. *)
C37_Witness ==
    /\ fn = "message_delete_sequence"
    /\ pc = "wait"
    /\ Len(tasks) = 1
    /\ message_group_old = <<>>
    /\ message_group_old_own = <<>>
    /\ \E x \in fresh :
          /\ requests[tasks[1]].ids = <<x>>
          /\ x < SafeLimit(requests[tasks[1]].at)
          /\ x > RescanLimit(SafeLimit(requests[tasks[1]].at))

-----------------------------------------------------------------------------
(* The frame of a loop pass of message_delete_sequence before `if not tasks:` *)
SeqScheduled ==
    SeqDeleteOld(SeqDeleteOldOwn(SeqDeleteNew(SeqRequest(Frame, now), now), now), now)

(* The frame of a loop pass of multi_client_message_delete_sequence before
   `if not tasks:` *)
McScheduled ==
    McDeleteOld(McDeleteOldOwn(McDeleteNewAll(McRequest(Frame, now), 1, now), now), 1, now)

(* The messages are within the range that is neither collected nor moved. *)
InMargin(group) ==
    \A index \in 1..Len(group) :
        /\ group[index].id < SafeLimit(now)
        /\ group[index].id > RescanLimit(SafeLimit(now))

(* The pass whose frame before `if not tasks:` is F had no task: the old
   groups are empty, message_group_new holds only messages of the margin,
   and the step ends the loop when it is empty and else sends its head alone,
   with message_delete when `own` and with message_delete_b2wo otherwise. *)
NoTaskStep(F, own) ==
    (F.tasks = <<>>) =>
        /\ F.message_group_old = <<>>
        /\ F.message_group_old_own = <<>>
        /\ InMargin(F.message_group_new)
        /\ requests = F.requests
        /\ IF F.message_group_new = <<>>
           THEN pc' = "done" /\ requests' = requests
           ELSE /\ pc' = "wait"
                /\ message_group_new' = Tail(F.message_group_new)
                /\ Len(requests') = Len(requests) + 1
                /\ tasks' = <<Len(requests')>>
                /\ requests'[Len(requests')].ids = <<Head(F.message_group_new).id>>
                /\ requests'[Len(requests')].k =
                      IF own THEN "message_delete" ELSE "message_delete_b2wo"

(* C38: in message_delete_sequence and multi_client_message_delete_sequence,
   when a loop pass arrives at `if not tasks:` with no task, both old groups
   are empty and message_group_new holds only messages between the re-scan
   limit and the safety limit; the loop ends when there is none, and else the
   head is sent alone, with message_delete if own and message_delete_b2wo
   otherwise. *)
C38_FallbackOnMargin ==
    [][(pc = "loop" /\ pc' # "loop") =>
          /\ (fn = "message_delete_sequence") =>
                \A F \in {SeqScheduled} :
                    NoTaskStep(F, F.message_group_new # <<>> /\ Head(F.message_group_new).own)
          /\ (fn = "multi_client_message_delete_sequence") =>
                \A F \in {McScheduled} :
                    NoTaskStep(F, F.message_group_new # <<>> /\ Head(F.message_group_new).whos # -1)]_vars

(* The fallback sent a message of the margin that is not own, with
   message_delete_b2wo, and it is the only task. *)
C38_Witness ==
    /\ fn \in {"message_delete_sequence", "multi_client_message_delete_sequence"}
    /\ pc = "wait"
    /\ Len(tasks) = 1
    /\ requests[tasks[1]].k = "message_delete_b2wo"
    /\ \E x \in fresh :
          /\ requests[tasks[1]].ids = <<x>>
          /\ x < SafeLimit(requests[tasks[1]].at)
          /\ x > RescanLimit(SafeLimit(requests[tasks[1]].at))

-----------------------------------------------------------------------------
(* C39: message_delete_multiple pops only from a group that is not empty: no
   loop pass ends in the IndexError of a pop from an empty
   message_group_old_own, whatever message_group_new holds. *)
C39_NeverPopsEmpty ==
    (fn = "message_delete_multiple") => ~(pc = "raised" /\ error = "IndexError")

====
